---------------------------- MODULE Spec2Model ----------------------------
(***************************************************************************)
(* A model of muzixer (src/app): the mix-compatibility scorer, the library *)
(* index with its "next up" ranking, and the audio analysis with its       *)
(* cache.                                                                  *)
(*                                                                         *)
(* Python values are modelled as follows.                                  *)
(*   - a str is the sequence of its characters (1-character strings);      *)
(*   - an Optional value is a sequence of length <= 1: None is <<>> and a  *)
(*     present value v is <<v>> (so the empty str "" is <<<<>>>>, distinct *)
(*     from None);                                                         *)
(*   - a tuple is a sequence, a dict with fixed keys is a record.          *)
(***************************************************************************)
EXTENDS Integers, Sequences, FiniteSets, TLC

VARIABLES
    args,           \* pure-function harness: the arguments of the call
    ret,            \* pure-function harness: None before the call, <<value>> after
    directory,      \* the *.mp3 file names of DOWNLOAD_DIR (the environment)
    library_index,  \* MainWindow.library_index: list of item dicts
    bpm_index,      \* MainWindow.bpm_index: {int bpm: [item, ...]}
    selected,       \* the selected row of the library table, None when no row is
    next_up_list,   \* the entries (total, item) shown in MainWindow.next_up_list
    variant,        \* the program run: "main" (app/main.py) or "app" (app/run.py)
    audio,          \* what librosa yields for the file at each path (the environment)
    AUDIO_ANALYSIS_CACHE,   \* {path: {'bpm': ..., 'key': {'name': ..., 'mode': ...}}}
    CACHE_MUTEX,    \* None, or <<w>> when worker w holds the mutex
    workers,        \* the AudioAnalysisWorker threads, in order of creation
    table,          \* the rows of the library table as displayed, top to bottom
    refreshing,     \* None, or <<files>>: refresh_library is in its loop, files left
    index_read,     \* what the last gather_candidates_by_bpm found in the indexes
    analysis_progress_active,   \* MainWindow.analysis_progress_active
    library_timer,  \* MainWindow.library_timer is running
    download_in_progress,       \* MainWindow.download_in_progress
    download_btn,   \* download_btn.isEnabled()
    downloads       \* the DownloadWorker threads, in order of creation

harnessVars == <<args, ret>>

libraryVars == <<directory, library_index, bpm_index>>

tableVars == <<table, refreshing, index_read>>

progressVars == <<analysis_progress_active, library_timer>>

downloadVars == <<download_in_progress, download_btn, downloads>>

uiVars == <<selected, next_up_list, tableVars, progressVars, downloadVars>>

analysisVars == <<variant, audio, AUDIO_ANALYSIS_CACHE, CACHE_MUTEX, workers>>

vars == <<args, ret, directory, library_index, bpm_index, selected, next_up_list,
          variant, audio, AUDIO_ANALYSIS_CACHE, CACHE_MUTEX, workers,
          table, refreshing, index_read, analysis_progress_active, library_timer,
          download_in_progress, download_btn, downloads>>

---------------------------------------------------------------------------
(* Python values *)

None == <<>>

Some(v) == <<v>>

Val(o) == o[1]

Abs(n) == IF n < 0 THEN 0 - n ELSE n

Min(m, n) == IF m <= n THEN m ELSE n

Digits == <<"0", "1", "2", "3", "4", "5", "6", "7", "8", "9">>

IsDigitChar(c) == \E i \in 1..10 : Digits[i] = c

DigitVal(c) == (CHOOSE i \in 1..10 : Digits[i] = c) - 1

IsSpaceChar(c) == c = " "

\* str.isdigit(): non-empty and every character a digit
isdigit(s) == Len(s) > 0 /\ \A i \in 1..Len(s) : IsDigitChar(s[i])

RECURSIVE DigitsToInt(_)
DigitsToInt(s) ==
    IF Len(s) = 0 THEN 0
    ELSE 10 * DigitsToInt(SubSeq(s, 1, Len(s) - 1)) + DigitVal(s[Len(s)])

RECURSIVE LStrip(_)
LStrip(s) == IF Len(s) > 0 /\ IsSpaceChar(s[1]) THEN LStrip(Tail(s)) ELSE s

RECURSIVE RStrip(_)
RStrip(s) ==
    IF Len(s) > 0 /\ IsSpaceChar(s[Len(s)]) THEN RStrip(SubSeq(s, 1, Len(s) - 1)) ELSE s

\* s.strip()
Strip(s) == RStrip(LStrip(s))

HasSign(t) == Len(t) > 0 /\ t[1] \in {"+", "-"}

\* int(t) for a stripped str t: one sign is allowed, then decimal digits.
\* None stands for the ValueError int() raises.
IntOfStripped(t) ==
    IF ~isdigit(IF HasSign(t) THEN Tail(t) ELSE t) THEN None
    ELSE IF ~HasSign(t) THEN Some(DigitsToInt(t))
    ELSE IF t[1] = "-" THEN Some(0 - DigitsToInt(Tail(t)))
    ELSE Some(DigitsToInt(Tail(t)))

\* int(s) for a str s: surrounding whitespace is ignored.  (The alphabet of
\* the model has no "_", which int() allows between digits.)
int(s) == IntOfStripped(Strip(s))

\* round(n / d) for integers n >= 0, d > 0: Python 3 rounds halves to even
PyRound(n, d) ==
    LET q == n \div d
        r == n % d
    IN IF 2 * r < d THEN q
       ELSE IF 2 * r > d THEN q + 1
       ELSE IF q % 2 = 0 THEN q ELSE q + 1

---------------------------------------------------------------------------
(* Mix compatibility: main.py lines 85-162.  ui_main.py lines 512-538      *)
(* repeats the same four functions, nested in update_next_up_from_library, *)
(* with bpm_tier_score returning the bare score.                           *)

UNK == <<"U", "N", "K">>

\* "return num, mode", or (None, None) when int() raised
ParsedCode(num, mode) == IF num = None THEN <<None, None>> ELSE <<num, Some(mode)>>

\* parse_camelot(c) -> (num, mode); (None, None) is <<None, None>>
parse_camelot(c) ==
    IF c = None \/ Val(c) = <<>> \/ Val(c) = UNK THEN <<None, None>>
    ELSE ParsedCode(int(SubSeq(Val(c), 1, Len(Val(c)) - 1)), Val(c)[Len(Val(c))])

WheelScore_nomode(n1, m1, n2, m2) ==
    LET dist == Min(Abs(n1 - n2), 12 - Abs(n1 - n2))
    IN IF n1 = n2 THEN 100
       ELSE IF dist = 1 THEN 90
       ELSE IF dist = 2 THEN 65
       ELSE IF dist = 3 THEN 45
       ELSE 0

WheelScore_signed(n1, m1, n2, m2) ==
    LET dist == Min(n1 - n2, 12 - (n1 - n2))
    IN IF n1 = n2 /\ m1 = m2 THEN 100
       ELSE IF n1 = n2 /\ m1 # m2 THEN 85
       ELSE IF m1 = m2 /\ dist = 1 THEN 90
       ELSE IF m1 = m2 /\ dist = 2 THEN 65
       ELSE IF m1 = m2 /\ dist = 3 THEN 45
       ELSE 0

\* key_proximity_score from "# Exact/standard compat" on, for parsed codes
WheelScore(n1, m1, n2, m2) ==
    LET dist == Min(Abs(n1 - n2), 12 - Abs(n1 - n2))
    IN IF n1 = n2 /\ m1 = m2 THEN 100
       ELSE IF n1 = n2 /\ m1 # m2 THEN 85
       ELSE IF m1 = m2 /\ dist = 1 THEN 90
       ELSE IF m1 = m2 /\ dist = 2 THEN 65
       ELSE IF m1 = m2 /\ dist = 3 THEN 45
       ELSE 0

\* "if n1 is None or n2 is None: return 0", then the wheel
ParsedScore(p1, p2) ==
    IF p1[1] = None \/ p2[1] = None THEN 0
    ELSE WheelScore(Val(p1[1]), p1[2], Val(p2[1]), p2[2])

key_proximity_score(a, b) ==
    IF a = None \/ Val(a) = <<>> \/ b = None \/ Val(b) = <<>>
       \/ Val(a) = UNK \/ Val(b) = UNK
    THEN 0
    ELSE ParsedScore(parse_camelot(a), parse_camelot(b))

\* "not a" for an Optional[int]: None or 0
FalsyInt(a) == a = None \/ Val(a) = 0

bpm_tier_score_ratio_first(a, b) ==
    IF FalsyInt(a) \/ FalsyInt(b) THEN <<0, "unknown">>
    ELSE LET diff == Abs(Val(a) - Val(b))
         IN IF diff <= 2 THEN <<100, "tight">>
            ELSE IF Abs(Val(a) - Val(b) * 2) <= 3 \/ Abs(Val(a) * 2 - Val(b)) <= 3
                 THEN <<70, "ratio">>
            ELSE IF diff <= 5 THEN <<85, "close">>
            ELSE IF diff <= 8 THEN <<50, "loose">>
            ELSE <<0, "far">>

bpm_tier_score_loose_high(a, b) ==
    IF FalsyInt(a) \/ FalsyInt(b) THEN <<0, "unknown">>
    ELSE LET diff == Abs(Val(a) - Val(b))
         IN IF diff <= 2 THEN <<100, "tight">>
            ELSE IF diff <= 5 THEN <<85, "close">>
            ELSE IF Abs(Val(a) - Val(b) * 2) <= 3 \/ Abs(Val(a) * 2 - Val(b)) <= 3
                 THEN <<70, "ratio">>
            ELSE IF diff <= 8 THEN <<90, "loose">>
            ELSE <<0, "far">>

\* bpm_tier_score(a, b) -> (score, tier label)
bpm_tier_score(a, b) ==
    IF FalsyInt(a) \/ FalsyInt(b) THEN <<0, "unknown">>
    ELSE LET diff == Abs(Val(a) - Val(b))
         IN IF diff <= 2 THEN <<100, "tight">>
            ELSE IF diff <= 5 THEN <<85, "close">>
            ELSE IF Abs(Val(a) - Val(b) * 2) <= 3 \/ Abs(Val(a) * 2 - Val(b)) <= 3
                 THEN <<70, "ratio">>
            ELSE IF diff <= 8 THEN <<50, "loose">>
            ELSE <<0, "far">>

mix_score_sum(cur_bpm, cur_key, bpm, key) ==
    bpm_tier_score(cur_bpm, bpm)[1] + key_proximity_score(cur_key, key)

mix_score_swapped(cur_bpm, cur_key, bpm, key) ==
    PyRound(4 * bpm_tier_score(cur_bpm, bpm)[1] + 6 * key_proximity_score(cur_key, key), 10)

\* int(round(0.6 * bpm_score_val + 0.4 * key_score_val)): both scores are
\* multiples of 5, so the float sum is the exact rational (6 b + 4 k) / 10
mix_score(cur_bpm, cur_key, bpm, key) ==
    LET bpm_score_val == bpm_tier_score(cur_bpm, bpm)[1]
        key_score_val == key_proximity_score(cur_key, key)
    IN PyRound(6 * bpm_score_val + 4 * key_score_val, 10)

---------------------------------------------------------------------------
(* Strings: comparison, search, split, formatting *)

\* the characters of the model in code point order
Alphabet == <<" ", "+", "-", ".", "0", "1", "2", "3", "4", "5", "6", "7", "8", "9",
              "A", "B", "K", "N", "U", "X", "a", "b", "c", "d", "e", "f", "g", "h",
              "k", "m", "n", "p", "t", "u">>

\* the rank of a character in code point order
Ord(c) == CHOOSE i \in 1..Len(Alphabet) : Alphabet[i] = c

\* s < t for two str: lexicographic by code point, a proper prefix is smaller
RECURSIVE StrLess(_, _)
StrLess(s, t) ==
    IF Len(t) = 0 THEN FALSE
    ELSE IF Len(s) = 0 THEN TRUE
    ELSE IF s[1] # t[1] THEN Ord(s[1]) < Ord(t[1])
    ELSE StrLess(Tail(s), Tail(t))

\* the least index of a set of indexes, 0 for the empty set
FirstOf(hits) == IF hits = {} THEN 0 ELSE CHOOSE i \in hits : \A j \in hits : i <= j

\* s.find(sep): the least index (from 1) at which sep occurs in s, 0 when none
Find(s, sep) ==
    FirstOf({i \in 1..(Len(s) - Len(sep) + 1) : SubSeq(s, i, i + Len(sep) - 1) = sep})

\* the characters of s up to its first whitespace character
RECURSIVE FirstWord(_)
FirstWord(s) ==
    IF Len(s) = 0 \/ IsSpaceChar(s[1]) THEN <<>> ELSE <<s[1]>> \o FirstWord(Tail(s))

\* s.split(): the maximal runs of non-whitespace characters
RECURSIVE SplitWhitespace(_)
SplitWhitespace(s) ==
    IF Len(s) = 0 THEN <<>>
    ELSE IF IsSpaceChar(s[1]) THEN SplitWhitespace(Tail(s))
    ELSE <<FirstWord(s)>> \o SplitWhitespace(SubSeq(s, Len(FirstWord(s)) + 1, Len(s)))

\* str(n) for an integer n >= 0
RECURSIVE IntToStr(_)
IntToStr(n) ==
    IF n < 10 THEN <<Digits[n + 1]>>
    ELSE IntToStr(n \div 10) \o <<Digits[(n % 10) + 1]>>

LowerOf(c) == IF c = "M" THEN "m" ELSE IF c = "P" THEN "p" ELSE c

---------------------------------------------------------------------------
(* File names: main.py lines 347-368 (ui_main.py lines 571-586) *)

Dash == <<" ", "-", " ">>

Mp3 == <<".", "m", "p", "3">>

\* the checks of extract_bpm_key on the second word of the head
KeyPartOk(key_part) ==
    /\ Len(key_part) >= 2
    /\ isdigit(SubSeq(key_part, 1, Len(key_part) - 1))
    /\ key_part[Len(key_part)] \in {"A", "B"}

\* extract_bpm_key from "parts = head.split()" on
BpmKeyOfParts(parts) ==
    IF Len(parts) < 2 \/ ~isdigit(parts[1]) THEN <<None, None>>
    ELSE IF ~KeyPartOk(parts[2]) THEN <<None, None>>
    ELSE <<int(parts[1]), Some(parts[2])>>

\* extract_bpm_key with the first " - " of the name at index at (0: none)
BpmKeyAt(filename, at) ==
    IF at = 0 THEN <<None, None>>
    ELSE BpmKeyOfParts(SplitWhitespace(SubSeq(filename, 1, at - 1)))

\* extract_bpm_key(filename) -> (bpm, key), expected "124 8A - Track.mp3"
extract_bpm_key(filename) == BpmKeyAt(filename, Find(filename, Dash))

\* re.sub(r"\.mp3$", "", title, flags=re.IGNORECASE)
StripMp3(title) ==
    IF /\ Len(title) >= 4
       /\ [i \in 1..4 |-> LowerOf(title[Len(title) - 4 + i])] = Mp3
    THEN SubSeq(title, 1, Len(title) - 4)
    ELSE title

\* name.split(" - ", 1)[1] if " - " in name else name
AfterDash(filename, at) ==
    IF at = 0 THEN filename ELSE SubSeq(filename, at + 3, Len(filename))

\* extract_title(filename): the text after the first " - ", without a final
\* ".mp3" in any letter case
extract_title(filename) == StripMp3(AfterDash(filename, Find(filename, Dash)))

---------------------------------------------------------------------------
(* The library: main.py lines 1339-1380 and 1407-1459 (ui_main.py lines    *)
(* 452-467 and 485-549).  The artist column comes from the metadata        *)
(* sidecar and plays no part in indexing or ranking; it is left out.       *)

\* a bpm that sorts the files without one last: "bpm if bpm is not None else 999"
SortLast == 999

SortKeyOf(bpm) == IF bpm # None THEN Val(bpm) ELSE SortLast

sort_key(p) == SortKeyOf(extract_bpm_key(p)[1])

\* the second components of a sequence of pairs
Seconds(pairs) == [i \in 1..Len(pairs) |-> pairs[i][2]]

\* the least element of a non-empty set of integers
Least(keys) == CHOOSE x \in keys : \A y \in keys : x <= y

\* list.sort(key=...): ascending by key, equal keys keep their order.  keyed
\* is a sequence of <<key, element>>; keys is the set of the keys to place.
RECURSIVE StableSortKeyed(_, _)
StableSortFrom(keyed, keys, k) ==
    Seconds(SelectSeq(keyed, LAMBDA e : e[1] = k)) \o StableSortKeyed(keyed, keys \ {k})

StableSortKeyed(keyed, keys) ==
    IF keys = {} THEN <<>> ELSE StableSortFrom(keyed, keys, Least(keys))

SortKeyed(keyed) == StableSortKeyed(keyed, {keyed[i][1] : i \in 1..Len(keyed)})

\* files.sort(key=sort_key)
SortFiles(files) == SortKeyed([i \in 1..Len(files) |-> <<sort_key(files[i]), files[i]>>])

MakeItem(p, bpm, key, title, cam) ==
    [path |-> p, bpm |-> bpm, key |-> key, title |-> title,
     camelot_num |-> cam[1], camelot_mode |-> cam[2]]

ItemOf(p, bk, title) == MakeItem(p, bk[1], bk[2], title, parse_camelot(bk[2]))

\* the item dict refresh_library builds for file p
Item(p) == ItemOf(p, extract_bpm_key(p), extract_title(p))

ItemsOf(sorted) == [row \in 1..Len(sorted) |-> Item(sorted[row])]

\* refresh_library's library_index for the listing files (glob order)
BuildLibraryIndex(files) == ItemsOf(SortFiles(files))

\* refresh_library's bpm_index: every item with a bpm, appended to its bucket
\* in library order
BuildBpmIndex(index) ==
    LET bpms == {Val(index[i].bpm) : i \in {j \in 1..Len(index) : index[j].bpm # None}}
    IN [b \in bpms |-> SelectSeq(index, LAMBDA it : it.bpm = Some(b))]

\* the candidate limit of the fallback: library_index[:200]
FallbackLimit == 200

\* below this many candidates the +-8 window is applied
MinCandidates == 50

\* only the top 10 are surfaced: scored[:10]
TopN == 10

\* self.bpm_index.get(b, [])
Bucket(index, b) == IF b \in DOMAIN index THEN index[b] ELSE <<>>

\* "if pid not in seen: seen.add(pid); candidates.append(it)" for the items
AppendUnseen(candidates, items, seen) ==
    candidates \o SelectSeq(items, LAMBDA it : it.path \notin seen)

\* add_bucket(b): append the items of bucket b whose path was not seen; seen
\* holds the paths of the candidates
add_bucket(index, candidates, b) ==
    AppendUnseen(candidates, Bucket(index, b),
                 {candidates[i].path : i \in 1..Len(candidates)})

RECURSIVE AddBuckets(_, _, _)
AddBuckets(index, candidates, buckets) ==
    IF Len(buckets) = 0 THEN candidates
    ELSE AddBuckets(index, add_bucket(index, candidates, buckets[1]), Tail(buckets))

\* [base + delta for delta in range(-w, w + 1)]
Window(base, w) == [i \in 1..(2 * w + 1) |-> base - w - 1 + i]

\* "half = round(cur_bpm / 2) if cur_bpm else None"
HalfOf(c) == IF c # 0 THEN Some(PyRound(c, 2)) ELSE None

\* "double = cur_bpm * 2 if cur_bpm else None"
DoubleOf(c) == IF c # 0 THEN Some(c * 2) ELSE None

AddAround_narrow(index, candidates, base) ==
    IF base # None /\ Val(base) # 0 /\ Val(base) > 0
    THEN AddBuckets(index, candidates, Window(Val(base), 1))
    ELSE candidates

\* "for base in [half, double]: if base and base > 0: ..." for one base
AddAround(index, candidates, base) ==
    IF base # None /\ Val(base) # 0 /\ Val(base) > 0
    THEN AddBuckets(index, candidates, Window(Val(base), 3))
    ELSE candidates

\* the candidates before the widening: +-5 of cur_bpm, +-3 of half and double
BaseCandidates(index, c) ==
    AddAround(index, AddAround(index, AddBuckets(index, <<>>, Window(c, 5)), HalfOf(c)),
              DoubleOf(c))

Widened_never(index, c, candidates) == candidates

\* "if len(candidates) < 50: for delta in range(-8, 9): add_bucket(...)"
Widened(index, c, candidates) ==
    IF Len(candidates) < MinCandidates
    THEN AddBuckets(index, candidates, Window(c, 8))
    ELSE candidates

Fallback_whole_library(lib) == lib

\* library_index[:200]
Fallback(lib) == SubSeq(lib, 1, Min(FallbackLimit, Len(lib)))

\* gather_candidates_by_bpm(cur_bpm) on library_index lib and bpm_index index
gather_candidates_by_bpm(lib, index, cur_bpm) ==
    IF cur_bpm = None \/ DOMAIN index = {} THEN Fallback(lib)
    ELSE Widened(index, Val(cur_bpm), BaseCandidates(index, Val(cur_bpm)))

\* the sort key (total, title) of a scored entry <<total, item>>: k1 >= k2
KeyGE(e1, e2) ==
    \/ e1[1] > e2[1]
    \/ e1[1] = e2[1] /\ ~StrLess(e1[2].title, e2[2].title)

\* scored.sort(key=lambda x: (x[0], x[1]["title"]), reverse=True): descending
\* by key; entries with equal keys keep their order (the sort is stable, also
\* reversed).  Each entry goes behind the entries whose key is >= its own.
RECURSIVE SortScored(_, _)
SortScored(sorted, rest) ==
    IF Len(rest) = 0 THEN sorted
    ELSE LET e == rest[1]
             k == Cardinality({i \in 1..Len(sorted) : KeyGE(sorted[i], e)})
         IN SortScored(SubSeq(sorted, 1, k) \o <<e>> \o SubSeq(sorted, k + 1, Len(sorted)),
                       Tail(rest))

Scored_keep_zero(cur, candidates) ==
    LET totals == [i \in 1..Len(candidates) |->
                      <<mix_score(cur.bpm, cur.key, candidates[i].bpm, candidates[i].key),
                        candidates[i]>>]
    IN SelectSeq(totals, LAMBDA e : e[2].path # cur.path)

Scored_by_title(cur, candidates) ==
    LET totals == [i \in 1..Len(candidates) |->
                      <<mix_score(cur.bpm, cur.key, candidates[i].bpm, candidates[i].key),
                        candidates[i]>>]
    IN SelectSeq(totals, LAMBDA e : e[2].title # cur.title /\ e[1] > 0)

\* the scored list of update_next_up_from_library: every candidate but cur
\* itself (by path) whose total is > 0, as <<total, item>>, in candidate order
Scored(cur, candidates) ==
    LET totals == [i \in 1..Len(candidates) |->
                      <<mix_score(cur.bpm, cur.key, candidates[i].bpm, candidates[i].key),
                        candidates[i]>>]
    IN SelectSeq(totals, LAMBDA e : e[2].path # cur.path /\ e[1] > 0)

\* scored[:10]
Top(sorted) == SubSeq(sorted, 1, Min(TopN, Len(sorted)))

\* best, for the reference item cur and its candidates
Best(cur, candidates) == Top(SortScored(<<>>, Scored(cur, candidates)))

\* best for the selected row (from 0)
NextUp(lib, index, row) ==
    Best(lib[row + 1], gather_candidates_by_bpm(lib, index, lib[row + 1].bpm))

---------------------------------------------------------------------------
(* Inputs of the scorer *)

\* the reference BPMs range over 0..MaxScoreBpm and the BPMs of the scenarios
MaxScoreBpm == 20

\* the candidate BPMs range over 0..MaxCandBpm
MaxCandBpm == 262

ScenarioBpms == {64, 120, 128}

RefBpmInputs == {None} \cup {Some(n) : n \in (0..MaxScoreBpm) \cup ScenarioBpms}

CandBpmInputs == {None} \cup {Some(n) : n \in 0..MaxCandBpm}

CamelotNumbers == <<<<"1">>, <<"2">>, <<"3">>, <<"4">>, <<"5">>, <<"6">>, <<"7">>, <<"8">>,
                    <<"9">>, <<"1", "0">>, <<"1", "1">>, <<"1", "2">>>>

\* the code of wheel position n (1..12) and mode letter m
Code(n, m) == CamelotNumbers[n] \o <<m>>

CamelotCodes == {Code(n, m) : n \in 1..12, m \in {"A", "B"}}

KeyInputs == {None, Some(UNK)} \cup {Some(c) : c \in CamelotCodes}

\* strings that are no Camelot code
MalformedKeys == {Some(<<>>), Some(<<"A">>), Some(<<"8">>), Some(<<"8", "X">>),
                  Some(<<"9", "X">>), Some(<<"1", "3", "A">>), Some(<<"1", "4", "A">>),
                  Some(<<"0", "A">>), Some(<<"-", "8", "A">>), Some(<<" ", "8", "A">>),
                  Some(<<"0", "8", "A">>), Some(<<"8", "a">>), Some(<<"u", "n", "k">>)}

\* the inputs of mix_score: a few reference tracks against many candidates
MixRefBpms == {None, Some(0), Some(8), Some(120), Some(128)}

MixCandBpms == {None} \cup {Some(n) : n \in (0..MaxScoreBpm) \cup (56..68) \cup (112..136)}

MixRefKeys == {None, Some(UNK), Some(Code(8, "A")), Some(Code(12, "A")), Some(Code(1, "B")),
               Some(<<"8", "X">>)}

MixCandKeys == KeyInputs \cup MalformedKeys

---------------------------------------------------------------------------
(* The scorer's functions as specifications: the inputs are drawn, then    *)
(* the function is called once and its return value kept in ret.           *)

\* the variables of the parts a specification leaves out keep these values
LibraryIdle == directory = <<>> /\ library_index = <<>> /\ bpm_index = <<>>

TableIdle == table = <<>> /\ refreshing = None /\ index_read = None

\* MainWindow.__init__: analysis_progress_active = False; the timer is not started
ProgressIdle == analysis_progress_active = FALSE /\ library_timer = FALSE

\* MainWindow.__init__: download_in_progress = 0; a new button is enabled
DownloadIdle == download_in_progress = 0 /\ download_btn = TRUE /\ downloads = <<>>

UiIdle ==
    /\ selected = None /\ next_up_list = <<>>
    /\ TableIdle /\ ProgressIdle /\ DownloadIdle

HarnessIdle == args = <<"none">> /\ ret = None

AnalysisIdle ==
    /\ variant = "main"
    /\ audio = <<>>
    /\ AUDIO_ANALYSIS_CACHE = <<>>
    /\ CACHE_MUTEX = None
    /\ workers = <<>>

InitTempo ==
    /\ LibraryIdle /\ UiIdle /\ AnalysisIdle
    /\ args \in {<<"bpm_tier_score", a, b>> : a \in RefBpmInputs, b \in CandBpmInputs}
    /\ ret = None

Call_bpm_tier_score ==
    /\ args[1] = "bpm_tier_score"
    /\ ret = None
    /\ ret' = Some(bpm_tier_score(args[2], args[3]))
    /\ UNCHANGED <<args, libraryVars, uiVars, analysisVars>>

NextTempo == Call_bpm_tier_score

SpecTempo == InitTempo /\ [][NextTempo]_vars

InitKey ==
    /\ LibraryIdle /\ UiIdle /\ AnalysisIdle
    /\ args \in {<<"key_proximity_score", a, b>> :
                    a \in KeyInputs \cup MalformedKeys, b \in KeyInputs \cup MalformedKeys}
    /\ ret = None

Call_key_proximity_score ==
    /\ args[1] = "key_proximity_score"
    /\ ret = None
    /\ ret' = Some(key_proximity_score(args[2], args[3]))
    /\ UNCHANGED <<args, libraryVars, uiVars, analysisVars>>

NextKey == Call_key_proximity_score

SpecKey == InitKey /\ [][NextKey]_vars

InitScore ==
    /\ LibraryIdle /\ UiIdle /\ AnalysisIdle
    /\ args \in {<<"mix_score", cur_bpm, cur_key, bpm, key>> :
                    cur_bpm \in MixRefBpms, cur_key \in MixRefKeys,
                    bpm \in MixCandBpms, key \in MixCandKeys}
    /\ ret = None

Call_mix_score ==
    /\ args[1] = "mix_score"
    /\ ret = None
    /\ ret' = Some(mix_score(args[2], args[3], args[4], args[5]))
    /\ UNCHANGED <<args, libraryVars, uiVars, analysisVars>>

NextScore == Call_mix_score

SpecScore == InitScore /\ [][NextScore]_vars

---------------------------------------------------------------------------
(* Claims about the scorer *)

Called(f) == args[1] = f /\ ret # None

\* C1: for every combination of inputs (each BPM an integer or null, each key
\* a Camelot code, "UNK", null or a malformed string) mix_score returns an
\* integer in 0..100.
C1_MixScoreInRange ==
    Called("mix_score") => Val(ret) \in 0..100

\* a call whose two sub-scores are both maximal, and one with unknown inputs
C1_Witness ==
    /\ Called("mix_score")
    /\ args[2] = Some(120) /\ args[4] = Some(121)
    /\ args[3] = Some(Code(8, "A")) /\ args[5] = Some(Code(8, "A"))
    /\ Val(ret) = 100

\* The tier table of the claim, first match first, for two known BPMs
TierOf(a, b) ==
    IF Abs(a - b) <= 2 THEN 100
    ELSE IF Abs(a - b) <= 5 THEN 85
    ELSE IF Abs(a - 2 * b) <= 3 \/ Abs(2 * a - b) <= 3 THEN 70
    ELSE IF Abs(a - b) <= 8 THEN 50
    ELSE 0

\* C2 as stated: 0 when either BPM is null, otherwise the first matching tier
\* (this is the original statement; it fails for a BPM of 0).
C2_Original ==
    Called("bpm_tier_score") =>
        Val(ret)[1] = IF args[2] = None \/ args[3] = None THEN 0
                      ELSE TierOf(Val(args[2]), Val(args[3]))

\* C2 (amended): bpm_tier_score(a, b) returns 0 when either BPM is null or 0,
\* and otherwise the score of the first matching condition in the order
\* |a-b| <= 2: 100; |a-b| <= 5: 85; |a-2b| <= 3 or |2a-b| <= 3: 70;
\* |a-b| <= 8: 50; otherwise 0.  A pair in the close tier that also passes a
\* half/double-time test scores 85, and the score of (128, 64) is 70.
C2_TierScore ==
    Called("bpm_tier_score") =>
        LET a == args[2]
            b == args[3]
            score == Val(ret)[1]
        IN /\ (a = None \/ b = None \/ a = Some(0) \/ b = Some(0)) => score = 0
           /\ (a # None /\ b # None /\ a # Some(0) /\ b # Some(0)) =>
                 /\ score = TierOf(Val(a), Val(b))
                 /\ (/\ Abs(Val(a) - Val(b)) \in 3..5
                     /\ (Abs(Val(a) - 2 * Val(b)) <= 3 \/ Abs(2 * Val(a) - Val(b)) <= 3))
                       => score = 85
           /\ (a = Some(128) /\ b = Some(64)) => score = 70

\* the double-time scenario tempoScore(128, 64) has been scored
C2_Witness ==
    Called("bpm_tier_score") /\ args[2] = Some(128) /\ args[3] = Some(64) /\ Val(ret)[1] = 70

\* circular distance of two positions on the 12-position wheel
WheelDistance(n1, n2) == Min(Abs(n1 - n2), 12 - Abs(n1 - n2))

\* the harmonic table of the claim, for two wheel positions and mode letters
HarmonicOf(n1, m1, n2, m2) ==
    IF n1 = n2 /\ m1 = m2 THEN 100
    ELSE IF n1 = n2 THEN 85
    ELSE IF m1 = m2 /\ WheelDistance(n1, n2) = 1 THEN 90
    ELSE IF m1 = m2 /\ WheelDistance(n1, n2) = 2 THEN 65
    ELSE IF m1 = m2 /\ WheelDistance(n1, n2) = 3 THEN 45
    ELSE 0

\* C3: key_proximity_score(a, b) is 0 when either code is null or "UNK";
\* otherwise 100 for identical codes, 85 for the same number with the opposite
\* mode letter, and for the same mode letter 90, 65 or 45 at circular wheel
\* distance 1, 2 or 3 (12A and 1A are at distance 1); every other pair of
\* Camelot codes scores 0.
C3_KeyProximity ==
    Called("key_proximity_score") =>
        /\ (args[2] \in {None, Some(UNK)} \/ args[3] \in {None, Some(UNK)}) => Val(ret) = 0
        /\ \A n1 \in 1..12, n2 \in 1..12, m1 \in {"A", "B"}, m2 \in {"A", "B"} :
              (args[2] = Some(Code(n1, m1)) /\ args[3] = Some(Code(n2, m2)))
                  => Val(ret) = HarmonicOf(n1, m1, n2, m2)
        /\ (args[2] = Some(Code(12, "A")) /\ args[3] = Some(Code(1, "A"))) => Val(ret) = 90
        /\ (args[2] = Some(Code(8, "A")) /\ args[3] = Some(Code(8, "B"))) => Val(ret) = 85

\* the wrap-around pair 12A, 1A has been scored as adjacent
C3_Witness ==
    /\ Called("key_proximity_score")
    /\ args[2] = Some(Code(12, "A")) /\ args[3] = Some(Code(1, "A"))
    /\ Val(ret) = 90

\* C4: mix_score equals round(0.6 * tempoScore + 0.4 * harmonicScore), the
\* integer nearest to (6 t + 4 h) / 10 (the even one of two nearest), where
\* t is the tier score of the two BPMs alone and h the proximity score of the
\* two codes alone.
C4_WeightedSum ==
    Called("mix_score") =>
        LET t == bpm_tier_score(args[2], args[4])[1]
            h == key_proximity_score(args[3], args[5])
            r == Val(ret)
        IN /\ 2 * Abs(10 * r - (6 * t + 4 * h)) <= 10
           /\ (2 * Abs(10 * r - (6 * t + 4 * h)) = 10) => r % 2 = 0

\* a call where both sub-scores are non-zero and differ, so the weights show
C4_Witness ==
    /\ Called("mix_score")
    /\ bpm_tier_score(args[2], args[4])[1] = 85
    /\ key_proximity_score(args[3], args[5]) = 45
    /\ Val(ret) = 69

---------------------------------------------------------------------------
(* The directories the library is built from *)

\* "<bpm> <key> - <title>.mp3"
FileName(bpm_txt, key_txt, title) ==
    bpm_txt \o <<" ">> \o key_txt \o Dash \o title \o Mp3

Reverse(seq) == [i \in 1..Len(seq) |-> seq[Len(seq) + 1 - i]]

\* the files of seq whose position is in the set keep
Pick(seq, keep) == SelectSeq([i \in 1..Len(seq) |-> <<i, seq[i]>>], LAMBDA e : e[1] \in keep)

\* the most generated tracks around 120 BPM in a directory of the ranking
MaxExtras == 11

\* generated track i: 118..122 BPM, keys around the wheel, titles t0..t3
ExtraFile(i) ==
    FileName(IntToStr(118 + (i % 5)),
             Code(((3 * i) % 12) + 1, IF i % 2 = 0 THEN "A" ELSE "B"),
             <<"t">> \o IntToStr(i % 4))

\* hand-made tracks: two files with the same BPM, key and title (the second
\* has two blanks after the BPM), tight, half-time and unrelated
\* tracks, and files without a descriptor
CoreFiles ==
    <<FileName(<<"1", "2", "0">>, Code(8, "A"), <<"b">>),
      FileName(<<"1", "2", "0", " ">>, Code(8, "A"), <<"b">>),
      FileName(<<"1", "2", "1">>, Code(8, "A"), <<"a">>),
      FileName(<<"6", "0">>, Code(8, "B"), <<"d">>),
      FileName(<<"6", "3">>, Code(2, "A"), <<"e">>),
      FileName(UNK, UNK, <<"g">>)>>

Extras(k) == [i \in 1..k |-> ExtraFile(i)]

\* every selection of the hand-made tracks, and the generated tracks alone or
\* behind all the hand-made ones
RankingDirectories ==
    {Seconds(Pick(CoreFiles, keep)) : keep \in SUBSET (1..Len(CoreFiles))}
    \cup {Extras(k) : k \in 1..MaxExtras}
    \cup {CoreFiles \o Extras(k) : k \in 1..MaxExtras}

\* DOWNLOAD_DIR.glob("*.mp3") lists the directory in an order of the file
\* system's choosing: here the order of the directory or its reverse
Listings(dir) == {dir, Reverse(dir)}

---------------------------------------------------------------------------
(* The library window: MainWindow with its library table and next-up list. *)
(* Init is the state after MainWindow.__init__, which ends with            *)
(* refresh_library().                                                      *)

\* library_index and bpm_index as refresh_library leaves them
Built(index) == library_index = index /\ bpm_index = BuildBpmIndex(index)

Rebuilt(index) == library_index' = index /\ bpm_index' = BuildBpmIndex(index)

Init ==
    /\ HarnessIdle /\ AnalysisIdle
    /\ directory \in RankingDirectories
    /\ \E files \in Listings(directory) : Built(BuildLibraryIndex(files))
    /\ selected = None
    /\ next_up_list = <<>>
    /\ TableIdle /\ ProgressIdle /\ DownloadIdle

\* refresh_library (F5, or the library timer): the index is rebuilt from the
\* directory.  setRowCount(0) removes the rows, which clears the selection
\* and makes the table emit itemSelectionChanged: update_next_up_from_library
\* then clears the next-up list and returns, no row being selected.
refresh_library ==
    /\ \E files \in Listings(directory) : Rebuilt(BuildLibraryIndex(files))
    /\ selected' = None
    /\ next_up_list' = <<>>
    /\ UNCHANGED <<directory, harnessVars, analysisVars>>
    /\ UNCHANGED <<tableVars, progressVars, downloadVars>>

\* update_next_up_from_library with the selection sel (None: no row selected)
update_next_up_from_library(sel) ==
    IF sel = None THEN <<>>
    ELSE IF Val(sel) < 0 \/ Val(sel) >= Len(library_index) THEN <<>>
    ELSE NextUp(library_index, bpm_index, Val(sel))

\* the user selects row r of the library table; the table emits
\* itemSelectionChanged, which runs update_next_up_from_library
SelectRow ==
    /\ \E r \in 0..(Len(library_index) - 1) :
          /\ selected # Some(r)
          /\ selected' = Some(r)
          /\ next_up_list' = update_next_up_from_library(Some(r))
    /\ UNCHANGED <<libraryVars, harnessVars, analysisVars>>
    /\ UNCHANGED <<tableVars, progressVars, downloadVars>>

\* the user clears the selection (Ctrl+click on the selected row)
ClearSelection ==
    /\ selected # None
    /\ selected' = None
    /\ next_up_list' = update_next_up_from_library(None)
    /\ UNCHANGED <<libraryVars, harnessVars, analysisVars>>
    /\ UNCHANGED <<tableVars, progressVars, downloadVars>>

Next == refresh_library \/ SelectRow \/ ClearSelection

Spec == Init /\ [][Next]_vars

---------------------------------------------------------------------------
(* Claims about the next-up list (checked under Spec) *)

\* the reference item of the list shown: the item of the selected row
Cur == library_index[Val(selected) + 1]

\* the total of library item it against the reference item
TotalOf(it) == mix_score(Cur.bpm, Cur.key, it.bpm, it.key)

\* the paths of the entries of the next-up list
ListedPaths == {next_up_list[i][2].path : i \in 1..Len(next_up_list)}

\* entry e1 ranks before entry e2: higher score, or equal score and a title
\* that is not greater
RanksBefore(e1, e2) ==
    \/ e1[1] > e2[1]
    \/ e1[1] = e2[1] /\ ~StrLess(e2[2].title, e1[2].title)

\* C5 (as stated): the next-up list holds at most 10 entries, in descending
\* order of score with equal scores in ascending order of title, and no
\* candidate left out ranks before a listed one.
C5_Original ==
    selected # None =>
        /\ Len(next_up_list) <= TopN
        /\ \A i \in 1..(Len(next_up_list) - 1) :
              RanksBefore(next_up_list[i], next_up_list[i + 1])
        /\ \A j \in 1..Len(library_index) :
              LET it == library_index[j]
              IN (/\ it.path \notin ListedPaths
                  /\ it.path # Cur.path
                  /\ TotalOf(it) > 0
                  /\ Len(next_up_list) > 0
                  /\ it.bpm # None /\ Cur.bpm # None
                  /\ Abs(Val(it.bpm) - Val(Cur.bpm)) <= 5)
                 => RanksBefore(next_up_list[Len(next_up_list)], <<TotalOf(it), it>>)

\* C6: no candidate whose total against the reference track is 0 is in the
\* next-up list.
C6_NoZeroScore ==
    selected # None =>
        \A i \in 1..Len(next_up_list) : TotalOf(next_up_list[i][2]) # 0

\* a track was gathered for the reference, totals 0 and is left out of a
\* list that shows other tracks
C6_Witness ==
    /\ selected # None
    /\ Len(next_up_list) > 0
    /\ Len(next_up_list) < TopN
    /\ \E j \in 1..Len(library_index) :
          /\ library_index[j].path # Cur.path
          /\ library_index[j].bpm # None
          /\ Cur.bpm # None
          /\ Abs(Val(library_index[j].bpm) - PyRound(Val(Cur.bpm), 2)) <= 3
          /\ TotalOf(library_index[j]) = 0
          /\ library_index[j].path \notin ListedPaths

\* C7: the reference track is never in its own next-up list, while another
\* file with the same BPM, key and title is listed (when it totals more than 0
\* and the list is not full).
C7_ExcludedByPath ==
    selected # None =>
        /\ Cur.path \notin ListedPaths
        /\ \A j \in 1..Len(library_index) :
              LET it == library_index[j]
              IN (/\ it.path # Cur.path
                  /\ it.bpm = Cur.bpm /\ it.key = Cur.key /\ it.title = Cur.title
                  /\ Cur.bpm # None
                  /\ TotalOf(it) > 0
                  /\ Len(next_up_list) < TopN)
                 => it.path \in ListedPaths

\* the list of a reference track shows its twin: same BPM, key and title,
\* another path
C7_Witness ==
    /\ selected # None
    /\ Cur.path \notin ListedPaths
    /\ \E i \in 1..Len(next_up_list) :
          LET it == next_up_list[i][2]
          IN /\ it.path # Cur.path
             /\ it.bpm = Cur.bpm /\ it.key = Cur.key /\ it.title = Cur.title

---------------------------------------------------------------------------
(* gather_candidates_by_bpm as a specification: a directory and a cur_bpm  *)
(* are drawn, the library is built from the directory as refresh_library   *)
(* builds it, then the function is called once.                            *)

\* how far the sizes of the directories go around the program's thresholds
MaxSlack == 1

\* bulk track i: 120 BPM (odd i) or 121 BPM (even i), titled t<i>
BulkFile(i) ==
    FileName(IntToStr(120 + ((i + 1) % 2)), Code(8, "A"), <<"t">> \o IntToStr(i))

Bulk(n) == [i \in 1..n |-> BulkFile(i)]

\* none, two, and counts around 50 tracks in all, around 50 tracks at 120
\* BPM, and beyond 200 tracks
BulkCounts ==
    {0, 2}
    \cup ((MinCandidates - MaxSlack)..(MinCandidates + MaxSlack))
    \cup ((2 * MinCandidates - MaxSlack)..(2 * MinCandidates + MaxSlack))
    \cup {FallbackLimit + MaxSlack}

\* a track at b BPM
RingFile(b) == FileName(IntToStr(b), Code(8, "B"), <<"h">> \o IntToStr(b))

NoDescriptor == FileName(UNK, UNK, <<"g">>)

\* tracks at the edges of the windows of the cur_bpm inputs, and one file
\* without a descriptor
Ring ==
    [i \in 1..12 |-> RingFile(<<127, 129, 60, 63, 64, 240, 243, 244, 200, 3, 6, 12>>[i])]
    \o <<NoDescriptor>>

\* half-time, double-time and unrelated tracks
ScenarioRing == <<RingFile(60), RingFile(240), RingFile(200)>>

GatherDirectories ==
    {Bulk(n) \o ring : n \in BulkCounts, ring \in {<<>>, <<NoDescriptor>>, ScenarioRing, Ring}}

GatherBpms == {None} \cup {Some(c) : c \in {0, 1, 6, 115, 120, 121, 128}}

InitGather ==
    /\ \E dir \in GatherDirectories :
          directory = dir /\ Built(BuildLibraryIndex(dir))
    /\ UiIdle /\ AnalysisIdle
    /\ args \in {<<"gather_candidates_by_bpm", cur_bpm>> : cur_bpm \in GatherBpms}
    /\ ret = None

Call_gather_candidates_by_bpm ==
    /\ args[1] = "gather_candidates_by_bpm"
    /\ ret = None
    /\ ret' = Some(gather_candidates_by_bpm(library_index, bpm_index, args[2]))
    /\ UNCHANGED <<args, libraryVars, uiVars, analysisVars>>

NextGather == Call_gather_candidates_by_bpm

SpecGather == InitGather /\ [][NextGather]_vars

---------------------------------------------------------------------------
(* Claims about gather_candidates_by_bpm (checked under SpecGather) *)

\* the rows of the library whose BPM is within w of base
RowsWithin(base, w) ==
    {j \in 1..Len(library_index) :
        /\ library_index[j].bpm # None
        /\ Abs(Val(library_index[j].bpm) - base) <= w}

\* the rows within 5 of c, 3 of round(c / 2) or 3 of c * 2
RowsNear(c) ==
    RowsWithin(c, 5) \cup RowsWithin(PyRound(c, 2), 3) \cup RowsWithin(c * 2, 3)

\* the rows to return for c: those near c, and those within 8 when the
\* near ones are fewer than 50
RowsFor(c) ==
    IF Cardinality(RowsNear(c)) < 50 THEN RowsNear(c) \cup RowsWithin(c, 8) ELSE RowsNear(c)

\* C8: for a non-null cur_bpm and a non-empty index the result holds, each
\* once, exactly the tracks within 5 of cur_bpm, within 3 of round(cur_bpm/2)
\* or within 3 of cur_bpm*2, and those within 8 of cur_bpm as well only when
\* the former are fewer than 50.
C8_Gathered ==
    (/\ Called("gather_candidates_by_bpm")
     /\ args[2] # None
     /\ DOMAIN bpm_index # {})
    => /\ {Val(ret)[i] : i \in 1..Len(Val(ret))}
            = {library_index[j] : j \in RowsFor(Val(args[2]))}
       /\ Len(Val(ret)) = Cardinality(RowsFor(Val(args[2])))

\* cur_bpm = 120 with tracks at 120, 121, 60, 240 and 200 BPM: all are
\* returned but the one at 200
C8_Witness ==
    /\ Called("gather_candidates_by_bpm")
    /\ args[2] = Some(120)
    /\ Len(library_index) = 5
    /\ {library_index[j].bpm : j \in 1..5} = {Some(60), Some(120), Some(121), Some(200), Some(240)}
    /\ Len(Val(ret)) = 4
    /\ {Val(ret)[i].bpm : i \in 1..4} = {Some(60), Some(120), Some(121), Some(240)}

\* C9: with a null cur_bpm or an empty index the result is the first 200
\* tracks of the library in library order, the whole library when it has fewer.
C9_Fallback ==
    (/\ Called("gather_candidates_by_bpm")
     /\ (args[2] = None \/ DOMAIN bpm_index = {}))
    => /\ Len(Val(ret)) = (IF Len(library_index) < 200 THEN Len(library_index) ELSE 200)
       /\ \A i \in 1..Len(Val(ret)) : Val(ret)[i] = library_index[i]

\* a library of more than 200 tracks, a null cur_bpm: 200 tracks come back,
\* of several tempos
C9_Witness ==
    /\ Called("gather_candidates_by_bpm")
    /\ args[2] = None
    /\ Len(library_index) > 200
    /\ Len(Val(ret)) = 200
    /\ Val(ret) = SubSeq(library_index, 1, 200)
    /\ Cardinality({Val(ret)[i].bpm : i \in 1..200}) > 1

---------------------------------------------------------------------------
(* Audio analysis: analyze_audio_batch and AudioAnalysisWorker.run, in the *)
(* module app/main.py (lines 308-331, 605-634) and in the package          *)
(* app/audio.py (lines 85-92), app/workers.py (lines 99-116).  A worker    *)
(* is a thread: its steps interleave with those of the other workers.      *)
(* File paths and key names are only compared for equality here: they are  *)
(* kept as strings, not as sequences of characters.                        *)

\* KEY_MAP: key name -> (major code, minor code)
KEY_MAP ==
    [k \in {"C", "C#", "D", "D#", "E", "F", "F#", "G", "G#", "A", "A#", "B"} |->
        CASE k = "C"  -> <<Code(8, "B"), Code(5, "A")>>
          [] k = "C#" -> <<Code(3, "B"), Code(12, "A")>>
          [] k = "D"  -> <<Code(10, "B"), Code(7, "A")>>
          [] k = "D#" -> <<Code(5, "B"), Code(2, "A")>>
          [] k = "E"  -> <<Code(12, "B"), Code(9, "A")>>
          [] k = "F"  -> <<Code(7, "B"), Code(4, "A")>>
          [] k = "F#" -> <<Code(2, "B"), Code(11, "A")>>
          [] k = "G"  -> <<Code(9, "B"), Code(6, "A")>>
          [] k = "G#" -> <<Code(4, "B"), Code(1, "A")>>
          [] k = "A"  -> <<Code(11, "B"), Code(8, "A")>>
          [] k = "A#" -> <<Code(6, "B"), Code(3, "A")>>
          [] k = "B"  -> <<Code(1, "B"), Code(10, "A")>>]

key_to_camelot_unk(key, mode) ==
    IF key = None \/ Val(key) = "" THEN Some(UNK)
    ELSE IF Val(key) \notin DOMAIN KEY_MAP THEN None
    ELSE IF mode = Some("major") THEN Some(KEY_MAP[Val(key)][1])
    ELSE Some(KEY_MAP[Val(key)][2])

key_to_camelot_minor_first(key, mode) ==
    IF key = None \/ Val(key) = "" THEN None
    ELSE IF Val(key) \notin DOMAIN KEY_MAP THEN None
    ELSE IF mode = Some("major") THEN Some(KEY_MAP[Val(key)][2])
    ELSE Some(KEY_MAP[Val(key)][1])

\* key_to_camelot(key, mode) -> Optional[str]; a mode that is neither
\* "major" nor "minor" counts as "minor"
key_to_camelot(key, mode) ==
    IF key = None \/ Val(key) = "" THEN None
    ELSE IF Val(key) \notin DOMAIN KEY_MAP THEN None
    ELSE IF mode = Some("major") THEN Some(KEY_MAP[Val(key)][1])
    ELSE Some(KEY_MAP[Val(key)][2])

\* What librosa and infer_key_mode_from_chroma yield for a file: whether
\* librosa.load decodes it, the tempo of beat_track on the 90 s load and on
\* the 120 s load of the retry, and (key_name, mode) of the chromagram.
Track(decodes, tempo, tempo_long, key_name, mode) ==
    [decodes |-> decodes, tempo |-> tempo, tempo_long |-> tempo_long,
     key_name |-> key_name, mode |-> mode]

\* a track with a beat; a silent one (tempo 0, flat chromagram); one whose
\* beat starts after 90 s; one with a chromagram of zero frames; a file that
\* does not decode
Tracks ==
    {Track(TRUE, Some(120), Some(120), Some("A"), Some("minor")),
     Track(TRUE, Some(0), Some(0), Some("C"), Some("major")),
     Track(TRUE, Some(0), Some(90), Some("C"), Some("major")),
     Track(TRUE, Some(0), Some(0), None, None),
     Track(FALSE, None, None, None, None)}

\* the files the downloads write
Paths == {"a.mp3", "b.mp3"}

\* the most AudioAnalysisWorker threads of a run
MaxWorkers == 2

\* AUDIO_ANALYSIS_CACHE.get(path_str, {})
CacheGet(cache, path) == IF path \in DOMAIN cache THEN cache[path] ELSE <<>>

\* the dict old after old.update(new)
DictUpdate(old, new) ==
    [k \in DOMAIN old \cup DOMAIN new |-> IF k \in DOMAIN new THEN new[k] ELSE old[k]]

\* the cache after AUDIO_ANALYSIS_CACHE.setdefault(path, {}).update(new)
CacheUpdate(cache, path, new) ==
    [q \in DOMAIN cache \cup {path} |->
        IF q = path THEN DictUpdate(CacheGet(cache, path), new) ELSE cache[q]]

\* "bpm or 0"
OrZero(bpm) == IF FalsyInt(bpm) THEN 0 ELSE Val(bpm)

\* "key_to_camelot(key_name, mode) if key_name else 'UNK'"
CamelotOf(key_name, mode) ==
    IF key_name = None \/ Val(key_name) = "" THEN Some(UNK)
    ELSE key_to_camelot(key_name, mode)

\* the results worker v has reported with analysis_complete
ResultsOf(v) ==
    {workers[v].signals[i][2] :
        i \in {j \in 1..Len(workers[v].signals) :
                  workers[v].signals[j][1] = "analysis_complete"}}

\* the results of the analyses of path completed so far
CompletedResults(path) ==
    UNION {ResultsOf(v) : v \in {u \in 1..Len(workers) : workers[u].path = path}}

\* a new AudioAnalysisWorker(path); prior is a record of the history kept
\* for the claims: the results reported for the path before this request;
\* handled: the GUI thread has run the slot of the worker's last signal
NewWorker(path) ==
    [path |-> path, pc |-> "run", bpm |-> None, key_name |-> None, mode |-> None,
     signals |-> <<>>, loads |-> 0, prior |-> CompletedResults(path),
     handled |-> FALSE]

\* "str(bpm) if bpm else 'UNK'" for the int of analysis_complete
BpmText(bpm) == IF bpm = 0 THEN UNK ELSE IntToStr(bpm)

\* final_name = f"{bpm_txt} {camelot} - {safe_title}.mp3"
FinalName(bpm, camelot, safe_title) == FileName(BpmText(bpm), camelot, safe_title)

\* the name of the file a download writes for path: "<title>.mp3"
DownloadName(path) == IF path = "a.mp3" THEN <<"a">> \o Mp3 ELSE <<"b">> \o Mp3

\* Path(path).stem
StemOf(path) == IF path = "a.mp3" THEN <<"a">> ELSE <<"b">>

\* name is a file of the directory dir
Exists(dir, name) == \E i \in 1..Len(dir) : dir[i] = name

\* the directory with the file name written, if it is not there
Written(dir, name) == IF Exists(dir, name) THEN dir ELSE Append(dir, name)

\* the directory without the file name (unlink(missing_ok=True))
Unlinked(dir, name) == SelectSeq(dir, LAMBDA f : f # name)

\* self.<signal>.emit(value) by worker w
Emitted(w, signal, value) == Append(workers[w].signals, <<signal, value>>)

InitAnalysis ==
    /\ HarnessIdle /\ LibraryIdle /\ UiIdle
    /\ variant \in {"main", "app"}
    /\ audio \in [Paths -> Tracks]
    /\ AUDIO_ANALYSIS_CACHE = <<>>
    /\ CACHE_MUTEX = None
    /\ workers = <<>>

\* a DownloadWorker has written the file of path and emitted done:
\* download_finished(path, ...) finds the file, creates a worker, sets the
\* analysis progress active and starts the worker
download_finished ==
    /\ Len(workers) < MaxWorkers
    /\ \E path \in Paths :
          /\ workers' = Append(workers, NewWorker(path))
          /\ directory' = Written(directory, DownloadName(path))
    /\ analysis_progress_active' = TRUE
    /\ UNCHANGED <<variant, audio, AUDIO_ANALYSIS_CACHE, CACHE_MUTEX>>
    /\ UNCHANGED <<harnessVars, library_index, bpm_index>>
    /\ UNCHANGED <<selected, next_up_list, tableVars, library_timer, downloadVars>>

\* run, up to the call of analyze_audio_batch: main.py's takes the mutex
\* first, audio.py's computes at once
Begin ==
    \E w \in 1..Len(workers) :
        /\ workers[w].pc = "run"
        /\ workers' = [workers EXCEPT
              ![w].signals = Emitted(w, "progress_update", 5),
              ![w].pc = IF variant = "main" THEN "lock_check" ELSE "compute"]
        /\ UNCHANGED <<variant, audio, AUDIO_ANALYSIS_CACHE, CACHE_MUTEX>>
        /\ UNCHANGED <<harnessVars, libraryVars, uiVars>>

\* MutexGuard.__enter__: CACHE_MUTEX.lock() blocks while another holds it
Lock ==
    \E w \in 1..Len(workers) :
        /\ workers[w].pc \in {"lock_check", "lock_store"}
        /\ CACHE_MUTEX = None
        /\ CACHE_MUTEX' = Some(w)
        /\ workers' = [workers EXCEPT
              ![w].pc = IF workers[w].pc = "lock_check" THEN "check" ELSE "store"]
        /\ UNCHANGED <<variant, audio, AUDIO_ANALYSIS_CACHE>>
        /\ UNCHANGED <<harnessVars, libraryVars, uiVars>>

\* the worker's state after the cache check of analyze_audio_batch found entry
Checked(wk, entry) ==
    IF "bpm" \in DOMAIN entry /\ "key" \in DOMAIN entry
    THEN [wk EXCEPT !.bpm = entry["bpm"], !.key_name = entry["key"].name,
                    !.mode = entry["key"].mode, !.pc = "retry_tempo"]
    ELSE [wk EXCEPT !.pc = "compute"]

\* analyze_audio_batch of main.py, first "with MutexGuard(CACHE_MUTEX)" block:
\* a complete entry is returned, otherwise the computation follows; the mutex
\* is released either way
CheckCache ==
    \E w \in 1..Len(workers) :
        /\ workers[w].pc = "check"
        /\ CACHE_MUTEX = Some(w)
        /\ workers' = [workers EXCEPT
              ![w] = Checked(workers[w], CacheGet(AUDIO_ANALYSIS_CACHE, workers[w].path))]
        /\ CACHE_MUTEX' = None
        /\ UNCHANGED <<variant, audio, AUDIO_ANALYSIS_CACHE>>
        /\ UNCHANGED <<harnessVars, libraryVars, uiVars>>

\* the worker after the body of analyze_audio_batch ran on track: one
\* librosa.load, then on success the tempo and the key.  A failing load
\* raises: main.py's function catches it and returns (None, None, None),
\* audio.py's lets it reach run, which emits error_occurred.
Computed(wk, track, v) ==
    IF track.decodes
    THEN [wk EXCEPT !.loads = @ + 1, !.bpm = track.tempo,
                    !.key_name = track.key_name, !.mode = track.mode,
                    !.pc = IF v = "main" THEN "lock_store" ELSE "retry_key"]
    ELSE IF v = "main"
    THEN [wk EXCEPT !.loads = @ + 1, !.pc = "retry_tempo"]
    ELSE [wk EXCEPT !.loads = @ + 1, !.pc = "done",
                    !.signals = Append(@, <<"error_occurred", wk.path>>)]

\* analyze_audio_batch: load, pick_informative_segment, beat_track,
\* chroma_cqt, infer_key_mode_from_chroma, outside the mutex
Compute ==
    \E w \in 1..Len(workers) :
        /\ workers[w].pc = "compute"
        /\ workers' = [workers EXCEPT
              ![w] = Computed(workers[w], audio[workers[w].path], variant)]
        /\ UNCHANGED <<variant, audio, AUDIO_ANALYSIS_CACHE, CACHE_MUTEX>>
        /\ UNCHANGED <<harnessVars, libraryVars, uiVars>>

\* analyze_audio_batch of main.py, second "with MutexGuard(CACHE_MUTEX)" block
Store ==
    \E w \in 1..Len(workers) :
        /\ workers[w].pc = "store"
        /\ CACHE_MUTEX = Some(w)
        /\ AUDIO_ANALYSIS_CACHE' =
              CacheUpdate(AUDIO_ANALYSIS_CACHE, workers[w].path,
                          [bpm |-> workers[w].bpm,
                           key |-> [name |-> workers[w].key_name, mode |-> workers[w].mode]])
        /\ CACHE_MUTEX' = None
        /\ workers' = [workers EXCEPT ![w].pc = "retry_tempo"]
        /\ UNCHANGED <<variant, audio>>
        /\ UNCHANGED <<harnessVars, libraryVars, uiVars>>

\* "if not bpm:" of main.py's run: a 120 s load and beat_track again; an
\* exception is passed over
TempoRetried(wk, track) ==
    IF ~FalsyInt(wk.bpm) THEN wk
    ELSE IF track.decodes THEN [wk EXCEPT !.loads = @ + 1, !.bpm = track.tempo_long]
    ELSE [wk EXCEPT !.loads = @ + 1]

\* run of main.py from progress 65 to the tempo retry
RetryTempo ==
    \E w \in 1..Len(workers) :
        /\ workers[w].pc = "retry_tempo"
        /\ workers' = [workers EXCEPT
              ![w] = [TempoRetried(workers[w], audio[workers[w].path]) EXCEPT
                         !.signals = Emitted(w, "progress_update", 65),
                         !.pc = "retry_key"]]
        /\ UNCHANGED <<variant, audio, AUDIO_ANALYSIS_CACHE, CACHE_MUTEX>>
        /\ UNCHANGED <<harnessVars, libraryVars, uiVars>>

\* "if key_name is None or mode is None:" of run: load and chroma again; an
\* exception is passed over
KeyRetried(wk, track) ==
    IF wk.key_name # None /\ wk.mode # None THEN wk
    ELSE IF track.decodes
    THEN [wk EXCEPT !.loads = @ + 1, !.key_name = track.key_name, !.mode = track.mode]
    ELSE [wk EXCEPT !.loads = @ + 1]

\* run from progress 85 to the key retry
RetryKey ==
    \E w \in 1..Len(workers) :
        /\ workers[w].pc = "retry_key"
        /\ workers' = [workers EXCEPT
              ![w] = [KeyRetried(workers[w], audio[workers[w].path]) EXCEPT
                         !.signals = Emitted(w, "progress_update", 85),
                         !.pc = "finish"]]
        /\ UNCHANGED <<variant, audio, AUDIO_ANALYSIS_CACHE, CACHE_MUTEX>>
        /\ UNCHANGED <<harnessVars, libraryVars, uiVars>>

Finish_complete_first ==
    \E w \in 1..Len(workers) :
        /\ workers[w].pc = "finish"
        /\ workers' = [workers EXCEPT
              ![w].signals = Append(@, <<"analysis_complete",
                                        <<workers[w].path, OrZero(workers[w].bpm),
                                          CamelotOf(workers[w].key_name, workers[w].mode)>> >>)
                             \o << <<"progress_update", 100>> >>,
              ![w].pc = "done"]
        /\ UNCHANGED <<variant, audio, AUDIO_ANALYSIS_CACHE, CACHE_MUTEX>>
        /\ UNCHANGED <<harnessVars, libraryVars, uiVars>>

\* the end of run: progress 100, then analysis_complete(path, bpm or 0, camelot)
Finish ==
    \E w \in 1..Len(workers) :
        /\ workers[w].pc = "finish"
        /\ workers' = [workers EXCEPT
              ![w].signals = Emitted(w, "progress_update", 100)
                             \o << <<"analysis_complete",
                                     <<workers[w].path, OrZero(workers[w].bpm),
                                       CamelotOf(workers[w].key_name, workers[w].mode)>> >> >>,
              ![w].pc = "done"]
        /\ UNCHANGED <<variant, audio, AUDIO_ANALYSIS_CACHE, CACHE_MUTEX>>
        /\ UNCHANGED <<harnessVars, libraryVars, uiVars>>

\* the last signal of worker w is name, and its slot has not run yet
Pending(w, name) ==
    /\ workers[w].pc = "done"
    /\ ~workers[w].handled
    /\ workers[w].signals[Len(workers[w].signals)][1] = name

\* the directory after handle_audio_analysis's file operations: with the
\* final name there already, the original is unlinked; otherwise it is
\* renamed, which raises if the original is gone (the directory stays)
Renamed(dir, original, final) ==
    IF Exists(dir, final) THEN Unlinked(dir, original)
    ELSE IF Exists(dir, original) THEN Append(Unlinked(dir, original), final)
    ELSE dir

\* the library timer after handle_audio_analysis: started when the rename
\* was made
TimerAfter(dir, original, final) ==
    library_timer \/ (~Exists(dir, final) /\ Exists(dir, original))

\* the GUI thread handles analysis_complete(path, bpm, camelot) of a worker:
\* handle_audio_analysis renames the file and starts the library timer (the
\* sidecar and the tags it writes are left out), and in its finally block
\* sets analysis_progress_active = False
handle_audio_analysis ==
    \E w \in 1..Len(workers) :
        /\ Pending(w, "analysis_complete")
        /\ \E result \in ResultsOf(w) :
              /\ directory' = Renamed(directory, DownloadName(result[1]),
                                      FinalName(result[2], Val(result[3]), StemOf(result[1])))
              /\ library_timer' = TimerAfter(directory, DownloadName(result[1]),
                                      FinalName(result[2], Val(result[3]), StemOf(result[1])))
        /\ analysis_progress_active' = FALSE
        /\ workers' = [workers EXCEPT ![w].handled = TRUE]
        /\ UNCHANGED <<variant, audio, AUDIO_ANALYSIS_CACHE, CACHE_MUTEX>>
        /\ UNCHANGED <<harnessVars, library_index, bpm_index>>
        /\ UNCHANGED <<selected, next_up_list, tableVars, downloadVars>>

\* the GUI thread handles error_occurred of a worker
handle_analysis_error ==
    \E w \in 1..Len(workers) :
        /\ Pending(w, "error_occurred")
        /\ analysis_progress_active' = FALSE
        /\ workers' = [workers EXCEPT ![w].handled = TRUE]
        /\ UNCHANGED <<variant, audio, AUDIO_ANALYSIS_CACHE, CACHE_MUTEX>>
        /\ UNCHANGED <<harnessVars, libraryVars>>
        /\ UNCHANGED <<selected, next_up_list, tableVars, library_timer, downloadVars>>

NextAnalysis ==
    \/ download_finished
    \/ Begin
    \/ Lock
    \/ CheckCache
    \/ Compute
    \/ Store
    \/ RetryTempo
    \/ RetryKey
    \/ Finish
    \/ handle_audio_analysis
    \/ handle_analysis_error

SpecAnalysis == InitAnalysis /\ [][NextAnalysis]_vars

---------------------------------------------------------------------------
(* Claims about the analysis (checked under SpecAnalysis) *)

\* a reported result that holds a BPM or a key
Known(result) == result[2] # 0 \/ result[3] # Some(UNK)

\* C10 (as stated): a worker requested for a path after an analysis of that
\* path completed with a result runs no decode, tempo or key computation,
\* and reports the same BPM and key.
C10_Original ==
    \A w \in 1..Len(workers) :
        \A result \in workers[w].prior :
            Known(result) =>
                /\ workers[w].loads = 0
                /\ ResultsOf(w) \subseteq {result}

\* the cache holds a complete entry for path
Cached(path) ==
    /\ path \in DOMAIN AUDIO_ANALYSIS_CACHE
    /\ {"bpm", "key"} \subseteq DOMAIN AUDIO_ANALYSIS_CACHE[path]

\* C11 (as stated): in main.py, while a worker is in the computation of
\* analyze_audio_batch for a path, no other worker is in it for the same
\* path and the cache holds no value for the path.
C11_Original ==
    variant = "main" =>
        \A w \in 1..Len(workers) :
            workers[w].pc = "compute" =>
                /\ ~Cached(workers[w].path)
                /\ \A v \in 1..Len(workers) :
                      (v # w /\ workers[v].path = workers[w].path)
                      => workers[v].pc # "compute"

\* the names of the signals worker w has emitted, in order
SignalNames(w) == [i \in 1..Len(workers[w].signals) |-> workers[w].signals[i][1]]

\* C13 (as stated): the run of a worker on a file that does not decode ends
\* with analysis_complete carrying no BPM (0) and the key "UNK", emits no
\* error_occurred and leaves the mutex free for the other workers.
C13_Original ==
    \A w \in 1..Len(workers) :
        (workers[w].pc = "done" /\ ~audio[workers[w].path].decodes) =>
            /\ ResultsOf(w) = {<<workers[w].path, 0, Some(UNK)>>}
            /\ \A i \in 1..Len(workers[w].signals) : SignalNames(w)[i] # "error_occurred"
            /\ CACHE_MUTEX # Some(w)

\* C14 (as stated): a worker whose tempo is unknown (bpm None) at the end
\* of run does not report the number 0 in analysis_complete.
C14_Original ==
    \A w \in 1..Len(workers) :
        \A result \in ResultsOf(w) :
            workers[w].bpm = None => result[2] # 0

---------------------------------------------------------------------------
(* The cached analysis functions of main.py called one after another:      *)
(* analyze_bpm (lines 290-306), detect_key (lines 257-278) and             *)
(* analyze_audio_batch (lines 308-331).  Each call is one step; ret keeps  *)
(* the returned value, the computations the call ran and the cache entry   *)
(* of the path before the call.                                            *)

\* the outcome of a call: the value returned, the cache it leaves and the
\* computations it ran, of "load" (librosa.load), "tempo" (beat_track) and
\* "key" (chroma_cqt and infer_key_mode_from_chroma)
Outcome(value, cache, ran) == [value |-> value, cache |-> cache, ran |-> ran]

\* analyze_bpm(path) on the cache, track being the file at path
analyze_bpm(cache, track, path) ==
    IF "bpm" \in DOMAIN CacheGet(cache, path)
    THEN Outcome(CacheGet(cache, path)["bpm"], cache, {})
    ELSE IF ~track.decodes THEN Outcome(None, cache, {"load"})
    ELSE Outcome(track.tempo, CacheUpdate(cache, path, [bpm |-> track.tempo]),
                 {"load", "tempo"})

\* detect_key(path): the name of the cached or computed key
detect_key(cache, track, path) ==
    IF "key" \in DOMAIN CacheGet(cache, path)
    THEN Outcome(CacheGet(cache, path)["key"].name, cache, {})
    ELSE IF ~track.decodes THEN Outcome(None, cache, {"load"})
    ELSE Outcome(track.key_name,
                 CacheUpdate(cache, path,
                             [key |-> [name |-> track.key_name, mode |-> track.mode]]),
                 {"load", "key"})

\* analyze_audio_batch(path) of main.py -> (bpm, key_name, mode)
analyze_audio_batch(cache, track, path) ==
    IF {"bpm", "key"} \subseteq DOMAIN CacheGet(cache, path)
    THEN Outcome(<<CacheGet(cache, path)["bpm"], CacheGet(cache, path)["key"].name,
                   CacheGet(cache, path)["key"].mode>>, cache, {})
    ELSE IF ~track.decodes THEN Outcome(<<None, None, None>>, cache, {"load"})
    ELSE Outcome(<<track.tempo, track.key_name, track.mode>>,
                 CacheUpdate(cache, path,
                             [bpm |-> track.tempo,
                              key |-> [name |-> track.key_name, mode |-> track.mode]]),
                 {"load", "tempo", "key"})

InitCache ==
    /\ LibraryIdle /\ UiIdle /\ HarnessIdle
    /\ variant = "main"
    /\ audio \in [Paths -> Tracks]
    /\ AUDIO_ANALYSIS_CACHE = <<>>
    /\ CACHE_MUTEX = None
    /\ workers = <<>>

\* what ret keeps of a call for path with outcome out
Returned(path, out) ==
    Some([value |-> out.value, ran |-> out.ran,
          before |-> CacheGet(AUDIO_ANALYSIS_CACHE, path)])

Call_analyze_bpm ==
    \E path \in Paths :
        /\ args' = <<"analyze_bpm", path>>
        /\ ret' = Returned(path, analyze_bpm(AUDIO_ANALYSIS_CACHE, audio[path], path))
        /\ AUDIO_ANALYSIS_CACHE' = analyze_bpm(AUDIO_ANALYSIS_CACHE, audio[path], path).cache
        /\ UNCHANGED <<variant, audio, CACHE_MUTEX, workers, libraryVars, uiVars>>

Call_detect_key ==
    \E path \in Paths :
        /\ args' = <<"detect_key", path>>
        /\ ret' = Returned(path, detect_key(AUDIO_ANALYSIS_CACHE, audio[path], path))
        /\ AUDIO_ANALYSIS_CACHE' = detect_key(AUDIO_ANALYSIS_CACHE, audio[path], path).cache
        /\ UNCHANGED <<variant, audio, CACHE_MUTEX, workers, libraryVars, uiVars>>

Call_analyze_audio_batch ==
    \E path \in Paths :
        /\ args' = <<"analyze_audio_batch", path>>
        /\ ret' = Returned(path, analyze_audio_batch(AUDIO_ANALYSIS_CACHE, audio[path], path))
        /\ AUDIO_ANALYSIS_CACHE' =
              analyze_audio_batch(AUDIO_ANALYSIS_CACHE, audio[path], path).cache
        /\ UNCHANGED <<variant, audio, CACHE_MUTEX, workers, libraryVars, uiVars>>

NextCache == Call_analyze_bpm \/ Call_detect_key \/ Call_analyze_audio_batch

SpecCache == InitCache /\ [][NextCache]_vars

---------------------------------------------------------------------------
(* Claims about the cached functions (checked under SpecCache) *)

\* C12 (as stated): a call for a path whose BPM is in the cache runs no
\* tempo computation and leaves the stored BPM as it was, and likewise for
\* the key; also when only one of the two is cached.
C12_Original ==
    ret # None =>
        /\ "bpm" \in DOMAIN Val(ret).before
              => /\ "tempo" \notin Val(ret).ran
                 /\ AUDIO_ANALYSIS_CACHE[args[2]]["bpm"] = Val(ret).before["bpm"]
        /\ "key" \in DOMAIN Val(ret).before
              => /\ "key" \notin Val(ret).ran
                 /\ AUDIO_ANALYSIS_CACHE[args[2]]["key"] = Val(ret).before["key"]

---------------------------------------------------------------------------
(* key_to_camelot as a specification: a key and a mode are drawn, then the *)
(* function is called once.                                                *)

\* _KEYS_12
KEYS_12 == <<"C", "C#", "D", "D#", "E", "F", "F#", "G", "G#", "A", "A#", "B">>

PitchClasses == {KEYS_12[i] : i \in 1..12}

\* no key, the empty name, the twelve pitch classes and names not in KEY_MAP
CamelotKeyInputs == {None, Some("")} \cup {Some(k) : k \in PitchClasses \cup {"Db", "H"}}

\* no mode, the two modes and a mode that is neither
CamelotModeInputs == {None, Some("major"), Some("minor"), Some("dorian")}

InitCamelot ==
    /\ LibraryIdle /\ UiIdle /\ AnalysisIdle
    /\ args \in {<<"key_to_camelot", key, mode>> :
                    key \in CamelotKeyInputs, mode \in CamelotModeInputs}
    /\ ret = None

Call_key_to_camelot ==
    /\ args[1] = "key_to_camelot"
    /\ ret = None
    /\ ret' = Some(key_to_camelot(args[2], args[3]))
    /\ UNCHANGED <<args, libraryVars, uiVars, analysisVars>>

NextCamelot == Call_key_to_camelot

SpecCamelot == InitCamelot /\ [][NextCamelot]_vars

---------------------------------------------------------------------------
(* Claims about key_to_camelot (checked under SpecCamelot) *)

\* C15 (as stated): key_to_camelot of a null pitch class returns "UNK", for
\* either mode.
C15_Original ==
    (Called("key_to_camelot") /\ args[2] = None) => Val(ret) = Some(UNK)

\* C15 (amended): key_to_camelot of a null pitch class returns null, for
\* every mode; the sentinel "UNK" is what the worker's
\* "key_to_camelot(key_name, mode) if key_name else 'UNK'" yields for it.
C15_NullKey ==
    (Called("key_to_camelot") /\ args[2] = None) =>
        /\ Val(ret) = None
        /\ CamelotOf(args[2], args[3]) = Some(UNK)

C15_Witness ==
    /\ Called("key_to_camelot")
    /\ args[2] = None
    /\ args[3] = Some("major")
    /\ Val(ret) = None

\* the (pitch class, mode) pairs of the table
KeyModePairs == {<<Some(k), Some(m)>> : k \in PitchClasses, m \in {"major", "minor"}}

\* C16: for each of the 12 pitch classes and both modes key_to_camelot
\* returns a code <1..12><A|B> of the table, with A exactly for minor and B
\* exactly for major; no other pair gets the same code; the number and the
\* letter parse_camelot decodes from the code spell the code again.
C16_TableCodes ==
    (Called("key_to_camelot") /\ <<args[2], args[3]>> \in KeyModePairs) =>
        /\ Val(ret) # None
        /\ Val(Val(ret)) \in CamelotCodes
        /\ Val(Val(ret)) \in {KEY_MAP[Val(args[2])][1], KEY_MAP[Val(args[2])][2]}
        /\ (Val(Val(ret))[Len(Val(Val(ret)))] = "A") <=> (args[3] = Some("minor"))
        /\ (Val(Val(ret))[Len(Val(Val(ret)))] = "B") <=> (args[3] = Some("major"))
        /\ \A pair \in KeyModePairs :
              pair # <<args[2], args[3]>> => key_to_camelot(pair[1], pair[2]) # Val(ret)
        /\ parse_camelot(Val(ret))[1] # None
        /\ Val(parse_camelot(Val(ret))[1]) \in 1..12
        /\ IntToStr(Val(parse_camelot(Val(ret))[1])) \o <<Val(parse_camelot(Val(ret))[2])>>
              = Val(Val(ret))

\* G# minor is 1A
C16_Witness ==
    /\ Called("key_to_camelot")
    /\ args[2] = Some("G#")
    /\ args[3] = Some("minor")
    /\ Val(ret) = Some(<<"1", "A">>)

---------------------------------------------------------------------------
(* Key estimation: infer_key_mode_from_chroma, main.py lines 190-231       *)
(* (audio.py lines 10-53).  A chromagram is None or a sequence of 12 rows, *)
(* one per pitch class, each a sequence of one energy (an integer >= 0)    *)
(* per frame.  Arithmetic is exact: a score is kept as a pair of integers  *)
(* ordered as the real numbers of the code are; the rounding of floating   *)
(* point sums is not modelled.                                             *)

\* _KS_PROFILE_MAJOR, in hundredths
KS_PROFILE_MAJOR == <<635, 223, 348, 233, 438, 409, 252, 519, 239, 366, 229, 288>>

\* _KS_PROFILE_MINOR, in hundredths
KS_PROFILE_MINOR == <<633, 268, 352, 538, 260, 353, 254, 475, 398, 269, 334, 317>>

\* sum(seq) for a sequence of integers
RECURSIVE SumSeq(_)
SumSeq(seq) == IF Len(seq) = 0 THEN 0 ELSE seq[1] + SumSeq(Tail(seq))

\* max(seq) for a non-empty sequence of integers
MaxOf(seq) == CHOOSE x \in {seq[i] : i \in 1..Len(seq)} : \A i \in 1..Len(seq) : seq[i] <= x

\* _rotate(lst, n): lst[n:] + lst[:n]
Rotate(lst, n) == [j \in 1..Len(lst) |-> lst[((j - 1 + n) % Len(lst)) + 1]]

\* chroma.size
SizeOf(chroma) == Len(chroma) * Len(chroma[1])

\* chroma.mean(axis=1), times the number of frames; the division by the
\* number of frames and by (chroma_mean.max() + 1e-9) scales every score of
\* a call by the same positive factor and is left out
ChromaMean(chroma) == [j \in 1..Len(chroma) |-> SumSeq(chroma[j])]

\* np.dot(a, b)
Dot(a, b) == SumSeq([j \in 1..Len(a) |-> a[j] * b[j]])

\* float(np.dot(chroma_mean, prof / (prof.max() + 1e-9))) for the profile
\* rotated by i, as the pair <<d * m, d>>: d is the dot product with the
\* rotated profile and m the maximum of the other profile.  The scores are
\* d / (max + 1e-9) with max 635 or 633; cross-multiplied, they compare as
\* these pairs do, first components first.
ScoreOf(chroma_mean, profile, other, i) ==
    <<Dot(chroma_mean, Rotate(profile, i)) * MaxOf(other),
      Dot(chroma_mean, Rotate(profile, i))>>

\* s > best_score for two scores
ScoreGreater(s, best_score) ==
    \/ s[1] > best_score[1]
    \/ s[1] = best_score[1] /\ s[2] > best_score[2]

Taken_or_equal(s, key, mode, best) ==
    IF ~ScoreGreater(best[1], s) THEN <<s, Some(key), Some(mode)>> ELSE best

\* "if s > best_score: best_score = s; best_key = ...; best_mode = ..."
Taken(s, key, mode, best) ==
    IF ScoreGreater(s, best[1]) THEN <<s, Some(key), Some(mode)>> ELSE best

\* the body of "for i in range(12)" from i on; best is
\* <<best_score, best_key, best_mode>>
RECURSIVE ScanKeys(_, _, _)
ScanKeys(chroma_mean, i, best) ==
    IF i = 12 THEN best
    ELSE ScanKeys(chroma_mean, i + 1,
                  Taken(ScoreOf(chroma_mean, KS_PROFILE_MINOR, KS_PROFILE_MAJOR, i),
                        KEYS_12[i + 1], "minor",
                        Taken(ScoreOf(chroma_mean, KS_PROFILE_MAJOR, KS_PROFILE_MINOR, i),
                              KEYS_12[i + 1], "major", best)))

\* <<best_key, best_mode>> after the loop
BestOf(best) == <<best[2], best[3]>>

\* infer_key_mode_from_chroma(chroma) -> (key_name, mode); best_score
\* starts at -1.0
infer_key_mode_from_chroma(chroma) ==
    IF chroma = None THEN <<None, None>>
    ELSE IF SizeOf(Val(chroma)) = 0 THEN <<None, None>>
    ELSE BestOf(ScanKeys(ChromaMean(Val(chroma)), 0, <<<<-1, 0>>, None, None>>))

\* the largest energy of a frame of the two-frame chromagrams
MaxEnergy == 2

\* a chromagram of one frame with energy 1 at the pitch classes of S
OneFrame(S) == [j \in 1..12 |-> <<IF j - 1 \in S THEN 1 ELSE 0>>]

\* a chromagram of two frames: energy e at pitch class p, then 1 at q
TwoFrames(p, e, q) ==
    [j \in 1..12 |-> <<IF j - 1 = p THEN e ELSE 0, IF j - 1 = q THEN 1 ELSE 0>>]

\* a chromagram of no frames
NoFrames == [j \in 1..12 |-> <<>>]

\* a chromagram of one frame whose energies are a reference profile moved
\* up by p pitch classes: row p holds the tonic weight profile[0], row
\* p + 1 (mod 12) holds profile[1], and so on
Transposed(profile, p) ==
    [j \in 1..12 |-> <<profile[((j - 1 - p + 12) % 12) + 1]>>]

\* no chromagram, one of no frames, the one-frame chromagrams (the silent
\* one is OneFrame({})), the two-frame ones and the transposed profiles
ChromaInputs ==
    {None, Some(NoFrames)}
    \cup {Some(OneFrame(S)) : S \in SUBSET (0..11)}
    \cup {Some(TwoFrames(p, e, q)) : p \in 0..11, e \in 1..MaxEnergy, q \in 0..11}
    \cup {Some(Transposed(profile, p)) :
             profile \in {KS_PROFILE_MAJOR, KS_PROFILE_MINOR}, p \in 0..11}

InitInfer ==
    /\ LibraryIdle /\ UiIdle /\ AnalysisIdle
    /\ args \in {<<"infer_key_mode_from_chroma", chroma>> : chroma \in ChromaInputs}
    /\ ret = None

Call_infer_key_mode_from_chroma ==
    /\ args[1] = "infer_key_mode_from_chroma"
    /\ ret = None
    /\ \E chroma \in ChromaInputs :
          /\ args[2] = chroma
          /\ ret' = Some(infer_key_mode_from_chroma(chroma))
    /\ UNCHANGED <<args, libraryVars, uiVars, analysisVars>>

NextInfer == Call_infer_key_mode_from_chroma

SpecInfer == InitInfer /\ [][NextInfer]_vars

---------------------------------------------------------------------------
(* Claims about infer_key_mode_from_chroma (checked under SpecInfer) *)

\* the 24 candidates in scan order: candidate c is pitch class c \div 2,
\* major when c is even
CandidateKey(c) == <<Some(KEYS_12[(c \div 2) + 1]), Some(IF c % 2 = 0 THEN "major" ELSE "minor")>>

CandidateScore(chroma_mean, c) ==
    IF c % 2 = 0
    THEN ScoreOf(chroma_mean, KS_PROFILE_MAJOR, KS_PROFILE_MINOR, c \div 2)
    ELSE ScoreOf(chroma_mean, KS_PROFILE_MINOR, KS_PROFILE_MAJOR, c \div 2)

\* the scores of the 24 candidates
CandidateScores(chroma_mean) == [c \in 0..23 |-> CandidateScore(chroma_mean, c)]

\* the candidates of maximal score
MaximalCandidates(scores) ==
    {c \in 0..23 : \A d \in 0..23 : ~ScoreGreater(scores[d], scores[c])}

FirstOfSet(S) == CHOOSE c \in S : \A d \in S : c <= d

\* the chromagrams that have at least one frame
Framed(chroma) == chroma # None /\ SizeOf(Val(chroma)) > 0

\* C17: the result of infer_key_mode_from_chroma is a function of the
\* chromagram alone, and it is the candidate of maximal score that comes
\* first in scan order (lowest pitch class, major before minor).
C17_FirstMaximal ==
    Called("infer_key_mode_from_chroma") =>
        \A chroma \in {args[2]} :
            Framed(chroma) =>
                \A scores \in {CandidateScores(ChromaMean(Val(chroma)))} :
                    Val(ret) = CandidateKey(FirstOfSet(MaximalCandidates(scores)))

\* a chromagram that is not silent, with several candidates of maximal
\* score, of which the first is not the first candidate scanned
C17_Witness ==
    /\ Called("infer_key_mode_from_chroma")
    /\ \E chroma \in {args[2]} :
          /\ Framed(chroma)
          /\ MaxOf(ChromaMean(Val(chroma))) > 0
          /\ \E maximal \in {MaximalCandidates(CandidateScores(ChromaMean(Val(chroma))))} :
                /\ Cardinality(maximal) > 1
                /\ FirstOfSet(maximal) > 0
                /\ Val(ret) = CandidateKey(FirstOfSet(maximal))

\* the chromagrams with at least one frame and no energy in any of them
Silent(chroma) == Framed(chroma) /\ MaxOf(ChromaMean(Val(chroma))) = 0

\* C18 (as stated): infer_key_mode_from_chroma returns (null, null) for an
\* empty chromagram and for a silent one (all energies zero).
C18_Original ==
    Called("infer_key_mode_from_chroma") =>
        \A chroma \in {args[2]} :
            (~Framed(chroma) \/ Silent(chroma)) => Val(ret) = <<None, None>>

\* C26 (as stated): for every pitch class p, when the time-averaged chroma
\* is the major (resp. minor) reference profile transposed so that its tonic
\* weight lies on pitch class p, infer_key_mode_from_chroma returns the
\* name of pitch class p with mode major (resp. minor).
C26_Original ==
    Called("infer_key_mode_from_chroma") =>
        \A p \in 0..11 :
            /\ args[2] = Some(Transposed(KS_PROFILE_MAJOR, p))
                  => Val(ret) = <<Some(KEYS_12[p + 1]), Some("major")>>
            /\ args[2] = Some(Transposed(KS_PROFILE_MINOR, p))
                  => Val(ret) = <<Some(KEYS_12[p + 1]), Some("minor")>>

---------------------------------------------------------------------------
(* Segment selection: pick_informative_segment, main.py lines 233-255      *)
(* (audio.py lines 56-73).  A signal is None or a sequence of integer      *)
(* samples; the sums of squares are exact (float32 rounding is not         *)
(* modelled).                                                              *)

\* float(np.sum(window.astype(np.float32) ** 2))
Energy(window) == SumSeq([j \in 1..Len(window) |-> window[j] * window[j]])

\* y[start:end], for 0 <= start <= end
Slice(y, start, end) == SubSeq(y, start + 1, Min(end, Len(y)))

Louder_or_equal(e, start, best) == IF e >= best[1] THEN <<e, start>> ELSE best

\* "if e > best_energy: best_energy = e; best_start = start"
Louder(e, start, best) == IF e > best[1] THEN <<e, start>> ELSE best

\* "for start in range(start, stop, step)"; best is <<best_energy, best_start>>
RECURSIVE ScanWindows(_, _, _, _, _, _)
ScanWindows(y, seg_len, step, start, stop, best) ==
    IF start >= stop THEN best
    ELSE ScanWindows(y, seg_len, step, start + step, stop,
                     Louder(Energy(Slice(y, start, start + seg_len)), start, best))

\* best_start after the loop over range(0, max(1, len(y) - seg_len + 1), step),
\* with best_start = 0 and best_energy = -1.0 before it
BestStart(y, seg_len, step) ==
    ScanWindows(y, seg_len, step, 0, Len(y) - seg_len + 1, <<-1, 0>>)[2]

\* the part of pick_informative_segment after "if len(y) <= seg_len: return y"
Segment(y, seg_len, step) ==
    Slice(y, BestStart(y, seg_len, step), BestStart(y, seg_len, step) + seg_len)

\* pick_informative_segment(y, sr, target_seconds), for sr >= 1
pick_informative_segment(y, sr, target_seconds) ==
    IF y = None THEN y
    ELSE IF Len(Val(y)) = 0 THEN y
    ELSE IF Len(Val(y)) <= target_seconds * sr THEN y
    ELSE Some(Segment(Val(y), target_seconds * sr, 5 * sr))

\* the longest signal
MaxSamples == 12

\* the signals of n samples that are 0 or 1
Pulses(n) == [1..n -> {0, 1}]

\* a signal of n samples 1 with one sample -2, the k-th
Dip(n, k) == [j \in 1..n |-> IF j = k THEN -2 ELSE 1]

SignalInputs ==
    {None}
    \cup {Some(y) : y \in UNION {Pulses(n) : n \in 0..MaxSamples}}
    \cup {Some(Dip(n, k)) : n \in 1..MaxSamples, k \in 1..MaxSamples}

\* <<sr, target_seconds>>: windows apart (1 < 5), windows that overlap
\* (6 > 5), and another sample rate
RateInputs == {<<1, 1>>, <<1, 6>>, <<2, 1>>}

InitSegment ==
    /\ LibraryIdle /\ UiIdle /\ AnalysisIdle
    /\ args \in {<<"pick_informative_segment", y, rate[1], rate[2]>> :
                    y \in SignalInputs, rate \in RateInputs}
    /\ ret = None

Call_pick_informative_segment ==
    /\ args[1] = "pick_informative_segment"
    /\ ret = None
    /\ \E y \in {args[2]} :
          ret' = Some(pick_informative_segment(y, args[3], args[4]))
    /\ UNCHANGED <<args, libraryVars, uiVars, analysisVars>>

NextSegment == Call_pick_informative_segment

SpecSegment == InitSegment /\ [][NextSegment]_vars

---------------------------------------------------------------------------
(* Claims about pick_informative_segment (checked under SpecSegment) *)

\* the starts of the windows of seg_len samples that fit in a signal of n
\* samples and begin at a multiple of step
FittingStarts(n, seg_len, step) == {start \in 0..(n - seg_len) : start % step = 0}

\* the first of the fitting starts whose window has the largest energy
FirstLoudest(y, seg_len, starts) ==
    CHOOSE start \in starts :
        \A other \in starts :
            /\ Energy(Slice(y, other, other + seg_len))
                 <= Energy(Slice(y, start, start + seg_len))
            /\ other < start =>
                 Energy(Slice(y, other, other + seg_len))
                   < Energy(Slice(y, start, start + seg_len))

\* C19: pick_informative_segment returns its input unchanged when it is
\* null, empty or of at most target_seconds * sr samples; otherwise it
\* returns a window of exactly target_seconds * sr samples that starts at a
\* multiple of 5 * sr, whose sum of squares is the largest among the
\* windows that fit, the earliest of them on ties.
C19_LoudestWindow ==
    Called("pick_informative_segment") =>
        \A y \in {args[2]} : \A seg_len \in {args[3] * args[4]} :
            IF y = None THEN Val(ret) = y
            ELSE IF Len(Val(y)) <= seg_len THEN Val(ret) = y
            ELSE \A start \in {FirstLoudest(Val(y), seg_len,
                                   FittingStarts(Len(Val(y)), seg_len, 5 * args[3]))} :
                    /\ Val(ret) = Some(SubSeq(Val(y), start + 1, start + seg_len))
                    /\ Len(Val(Val(ret))) = seg_len

\* a signal with three windows, of which the last two are the loudest:
\* the second is returned
C19_Witness ==
    /\ Called("pick_informative_segment")
    /\ args[2] = Some(<<0, 0, 0, 0, 0, 1, 0, 0, 0, 0, 1>>)
    /\ args[3] = 1 /\ args[4] = 1
    /\ Val(ret) = Some(<<1>>)
    /\ BestStart(Val(args[2]), 1, 5) = 5

---------------------------------------------------------------------------
(* Symmetry of key_proximity_score (checked under SpecKey) *)

\* C20: key_proximity_score(a, b) = key_proximity_score(b, a) for all pairs
\* of arguments: Camelot codes, "UNK", null and malformed strings.
C20_Symmetric ==
    Called("key_proximity_score") =>
        Val(ret) = key_proximity_score(args[3], args[2])

\* two different codes that are two steps apart on the wheel, the first
\* argument the larger number
C20_Witness ==
    /\ Called("key_proximity_score")
    /\ args[2] = Some(Code(10, "A"))
    /\ args[3] = Some(Code(8, "A"))
    /\ Val(ret) = 65
    /\ key_proximity_score(args[3], args[2]) = 65

---------------------------------------------------------------------------
(* Monotonicity of bpm_tier_score (checked under SpecTempo) *)

\* neither half/double-time test of bpm_tier_score passes for (a, b)
NoRatio(a, b) == Abs(a - 2 * b) > 3 /\ Abs(2 * a - b) > 3

\* the score does not increase from b1 to any b2 of candidates that is at
\* least as far from a and passes no half/double-time test
NoHigherFurther(a, b1, score, candidates) ==
    \A b2 \in candidates :
        (NoRatio(a, b2) /\ Abs(a - b1) <= Abs(a - b2))
        => score >= bpm_tier_score(Some(a), Some(b2))[1]

\* C21 (as stated): for every BPM a and all BPMs b1, b2 that pass neither
\* half/double-time test with a, |a-b1| <= |a-b2| implies
\* bpm_tier_score(a, b1) >= bpm_tier_score(a, b2).
C21_Original ==
    (Called("bpm_tier_score") /\ args[2] # None /\ args[3] # None) =>
        \A a \in {Val(args[2])} : \A b1 \in {Val(args[3])} :
            NoRatio(a, b1) => NoHigherFurther(a, b1, Val(ret)[1], 0..MaxCandBpm)

\* C21 (amended): the same for BPMs that are not 0, the value that
\* bpm_tier_score takes for an unknown BPM.
C21_Monotone ==
    (Called("bpm_tier_score") /\ args[2] # None /\ args[3] # None) =>
        \A a \in {Val(args[2])} : \A b1 \in {Val(args[3])} :
            (a # 0 /\ b1 # 0 /\ NoRatio(a, b1))
            => NoHigherFurther(a, b1, Val(ret)[1], 1..MaxCandBpm)

\* a close pair, with a looser pair of the same reference further away
C21_Witness ==
    /\ Called("bpm_tier_score")
    /\ args[2] = Some(120) /\ args[3] = Some(124)
    /\ NoRatio(120, 124) /\ NoRatio(120, 127)
    /\ Val(ret)[1] = 85
    /\ bpm_tier_score(Some(120), Some(127))[1] = 50

---------------------------------------------------------------------------
(* The cached analysis functions of main.py called from several threads:   *)
(* each caller runs detect_key (lines 257-278), analyze_bpm (lines         *)
(* 290-306) or analyze_audio_batch (lines 308-331) on a path.  workers     *)
(* holds the callers; a step is taking the mutex, the statements of a      *)
(* "with MutexGuard(CACHE_MUTEX)" block, leaving the block, or the         *)
(* computation between the two blocks.                                     *)

\* the most concurrent callers
MaxCallers == 2

CachedFunctions == {"detect_key", "analyze_bpm", "analyze_audio_batch"}

\* the fields of the entry that fn looks for and stores
FieldsOf(fn) ==
    IF fn = "detect_key" THEN {"key"}
    ELSE IF fn = "analyze_bpm" THEN {"bpm"}
    ELSE {"bpm", "key"}

\* what fn stores after computing on track
StoredBy(fn, track) ==
    IF fn = "detect_key" THEN [key |-> [name |-> track.key_name, mode |-> track.mode]]
    ELSE IF fn = "analyze_bpm" THEN [bpm |-> track.tempo]
    ELSE [bpm |-> track.tempo, key |-> [name |-> track.key_name, mode |-> track.mode]]

\* a caller about to enter the first block of fn(path); unguarded records
\* whether it has touched AUDIO_ANALYSIS_CACHE without holding CACHE_MUTEX
NewCaller(fn, path) == [fn |-> fn, path |-> path, pc |-> "enter_check", unguarded |-> FALSE]

\* a file with a beat and a key, and one that does not decode
CallerTracks == {t \in Tracks : t.tempo = Some(120) \/ ~t.decodes}

InitMutex ==
    /\ HarnessIdle /\ LibraryIdle /\ UiIdle
    /\ variant = "main"
    /\ audio \in [Paths -> CallerTracks]
    /\ AUDIO_ANALYSIS_CACHE = <<>>
    /\ CACHE_MUTEX = None
    /\ workers = <<>>

\* a thread calls one of the three functions
Call_cached ==
    /\ Len(workers) < MaxCallers
    /\ \E fn \in CachedFunctions, path \in Paths :
          workers' = Append(workers, NewCaller(fn, path))
    /\ UNCHANGED <<variant, audio, AUDIO_ANALYSIS_CACHE, CACHE_MUTEX>>
    /\ UNCHANGED <<harnessVars, libraryVars, uiVars>>

\* MutexGuard.__enter__: self.mutex.lock(), which blocks while it is locked
MutexGuard_enter ==
    \E t \in 1..Len(workers) :
        /\ workers[t].pc \in {"enter_check", "enter_store"}
        /\ CACHE_MUTEX = None
        /\ CACHE_MUTEX' = Some(t)
        /\ workers' = [workers EXCEPT
              ![t].pc = IF workers[t].pc = "enter_check" THEN "check" ELSE "store"]
        /\ UNCHANGED <<variant, audio, AUDIO_ANALYSIS_CACHE>>
        /\ UNCHANGED <<harnessVars, libraryVars, uiVars>>

\* the first block: the entry is read; with the fields there, the function
\* returns from inside the block
ReadEntry ==
    \E t \in 1..Len(workers) :
        /\ workers[t].pc = "check"
        /\ workers' = [workers EXCEPT
              ![t].unguarded = @ \/ CACHE_MUTEX # Some(t),
              ![t].pc = IF FieldsOf(workers[t].fn)
                             \subseteq DOMAIN CacheGet(AUDIO_ANALYSIS_CACHE, workers[t].path)
                        THEN "exit_return" ELSE "exit_check"]
        /\ UNCHANGED <<variant, audio, AUDIO_ANALYSIS_CACHE, CACHE_MUTEX>>
        /\ UNCHANGED <<harnessVars, libraryVars, uiVars>>

MutexGuard_exit_not_on_return ==
    \E t \in 1..Len(workers) :
        /\ workers[t].pc \in {"exit_return", "exit_check", "exit_store"}
        /\ CACHE_MUTEX' = IF workers[t].pc = "exit_return" THEN CACHE_MUTEX ELSE None
        /\ workers' = [workers EXCEPT
              ![t].pc = IF workers[t].pc = "exit_check" THEN "compute" ELSE "done"]
        /\ UNCHANGED <<variant, audio, AUDIO_ANALYSIS_CACHE>>
        /\ UNCHANGED <<harnessVars, libraryVars, uiVars>>

\* MutexGuard.__exit__: self.mutex.unlock(), at the end of a block and on a
\* return from inside it
MutexGuard_exit ==
    \E t \in 1..Len(workers) :
        /\ workers[t].pc \in {"exit_return", "exit_check", "exit_store"}
        /\ CACHE_MUTEX' = None
        /\ workers' = [workers EXCEPT
              ![t].pc = IF workers[t].pc = "exit_check" THEN "compute" ELSE "done"]
        /\ UNCHANGED <<variant, audio, AUDIO_ANALYSIS_CACHE>>
        /\ UNCHANGED <<harnessVars, libraryVars, uiVars>>

\* the computation between the blocks: librosa.load, beat_track and/or
\* chroma_cqt; an exception (a file that does not decode) is caught by the
\* function's "except Exception", which returns
Analyse ==
    \E t \in 1..Len(workers) :
        /\ workers[t].pc = "compute"
        /\ workers' = [workers EXCEPT
              ![t].pc = IF audio[workers[t].path].decodes THEN "enter_store" ELSE "done"]
        /\ UNCHANGED <<variant, audio, AUDIO_ANALYSIS_CACHE, CACHE_MUTEX>>
        /\ UNCHANGED <<harnessVars, libraryVars, uiVars>>

\* the second block: AUDIO_ANALYSIS_CACHE.setdefault(path_str, {}) is
\* assigned or updated
WriteEntry ==
    \E t \in 1..Len(workers) :
        /\ workers[t].pc = "store"
        /\ AUDIO_ANALYSIS_CACHE' =
              CacheUpdate(AUDIO_ANALYSIS_CACHE, workers[t].path,
                          StoredBy(workers[t].fn, audio[workers[t].path]))
        /\ workers' = [workers EXCEPT
              ![t].unguarded = @ \/ CACHE_MUTEX # Some(t),
              ![t].pc = "exit_store"]
        /\ UNCHANGED <<variant, audio, CACHE_MUTEX>>
        /\ UNCHANGED <<harnessVars, libraryVars, uiVars>>

NextMutex ==
    \/ Call_cached
    \/ MutexGuard_enter
    \/ ReadEntry
    \/ MutexGuard_exit
    \/ Analyse
    \/ WriteEntry

\* every started thread keeps running, and a free mutex is given to a
\* thread that waits for it
SpecMutex ==
    /\ InitMutex /\ [][NextMutex]_vars
    /\ WF_vars(MutexGuard_enter) /\ WF_vars(ReadEntry) /\ WF_vars(MutexGuard_exit)
    /\ WF_vars(Analyse) /\ WF_vars(WriteEntry)

---------------------------------------------------------------------------
(* Claims about the mutex (checked under SpecMutex) *)

\* caller t is waiting in CACHE_MUTEX.lock()
Blocked(t) == t <= Len(workers) /\ workers[t].pc \in {"enter_check", "enter_store"}

\* no caller has touched the cache without the mutex; the mutex is held by
\* no caller that computes or has returned
MutexDiscipline ==
    \A t \in 1..Len(workers) :
        /\ ~workers[t].unguarded
        /\ workers[t].pc \in {"compute", "done", "enter_check", "enter_store"}
           => CACHE_MUTEX # Some(t)

\* C22: every read and write of the cache by detect_key, analyze_bpm and
\* analyze_audio_batch is made while the caller holds CACHE_MUTEX; the mutex
\* is not held during the computation, it is released on every exit path,
\* and a caller that waits for it gets it.
C22_MutexGuarded ==
    /\ []MutexDiscipline
    /\ \A t \in 1..MaxCallers : Blocked(t) ~> ~Blocked(t)

\* a caller waits for the mutex while another caller for the same path
\* holds it, at the end of the block that stored the entry
C22_Witness ==
    /\ Len(workers) = 2
    /\ Blocked(2)
    /\ CACHE_MUTEX = Some(1)
    /\ workers[1].pc = "exit_store"
    /\ workers[1].path = workers[2].path

---------------------------------------------------------------------------
(* The library table and the rebuild of the indexes: refresh_library       *)
(* (main.py lines 1339-1380) step by step, the table's rows as displayed   *)
(* (sorting is enabled, main.py line 783) and the reads of the indexes by  *)
(* update_next_up_from_library (lines 1433-1445).  Handlers run on the GUI *)
(* thread, one at a time: an event is handled when no handler is running.  *)
(* The artist column (read from a sidecar file) is left empty.             *)

\* the files that may be in DOWNLOAD_DIR
TableFiles ==
    <<FileName(<<"1", "2", "0">>, Code(8, "A"), <<"b">>),
      FileName(<<"6", "0">>, Code(8, "B"), <<"d">>),
      FileName(UNK, UNK, <<"a">>)>>

\* the columns whose header the user clicks: 0 "BPM" and 2 "Song"
SortColumns == {0, 2}

\* the row of the table for an item: the texts of its cells
RowOf(item) ==
    [path |-> item.path,
     cells |-> <<IF item.bpm = None THEN UNK ELSE IntToStr(Val(item.bpm)),
                 IF item.key = None THEN UNK ELSE Val(item.key),
                 item.title,
                 <<>>>>]

\* row1 comes before row2 under the sort <<column, order>>: QTableWidgetItem
\* compares the texts of the cells
RowBefore(row1, row2, sort) ==
    IF sort[2] = "ascending"
    THEN StrLess(row1.cells[sort[1] + 1], row2.cells[sort[1] + 1])
    ELSE StrLess(row2.cells[sort[1] + 1], row1.cells[sort[1] + 1])

\* rows, sorted under sort, with row put at its place (behind its equals)
RECURSIVE Placed(_, _, _)
Placed(rows, row, sort) ==
    IF Len(rows) = 0 THEN <<row>>
    ELSE IF RowBefore(row, rows[1], sort) THEN <<row>> \o rows
    ELSE <<rows[1]>> \o Placed(Tail(rows), row, sort)

\* the rows sorted under sort (a stable sort)
RECURSIVE SortedRows(_, _)
SortedRows(rows, sort) ==
    IF Len(rows) = 0 THEN <<>>
    ELSE Placed(SortedRows(SubSeq(rows, 1, Len(rows) - 1), sort), rows[Len(rows)], sort)

\* the rows after setItem has filled a new row: at the end, or at its place
\* when a sort column is set
RowAdded(rows, row, sort) ==
    IF sort = None THEN Append(rows, row) ELSE Placed(rows, row, Val(sort))

\* the table: its rows, the sort of the header (None before the first
\* click) and `listed`, the sorted files of the last refresh_library
TableOf(rows, sort, listed) == [rows |-> rows, sort |-> sort, listed |-> listed]

\* the position (from 0) of the row of path in rows
RowAt(rows, path) == (CHOOSE r \in 1..Len(rows) : rows[r].path = path) - 1

EventLoopRunning_always == TRUE

\* the GUI thread is in its event loop: no handler is running
EventLoopRunning == refreshing = None

\* the directories of up to all of the files
TableDirectories == {Seconds(Pick(TableFiles, keep)) : keep \in SUBSET (1..Len(TableFiles))}

\* the table and the indexes after refresh_library on the listing files
InitTable ==
    /\ HarnessIdle /\ AnalysisIdle /\ ProgressIdle /\ DownloadIdle
    /\ directory \in TableDirectories
    /\ \E files \in Listings(directory) :
          /\ Built(BuildLibraryIndex(files))
          /\ table = TableOf([r \in 1..Len(files) |-> RowOf(BuildLibraryIndex(files)[r])],
                             None, SortFiles(files))
    /\ selected = None
    /\ next_up_list = <<>>
    /\ refreshing = None
    /\ index_read = None

\* a download or a rename by handle_audio_analysis puts a file in DOWNLOAD_DIR
FileArrives ==
    /\ \E i \in 1..Len(TableFiles) :
          /\ \A j \in 1..Len(directory) : directory[j] # TableFiles[i]
          /\ directory' = Append(directory, TableFiles[i])
    /\ UNCHANGED <<library_index, bpm_index, selected, next_up_list, tableVars>>
    /\ UNCHANGED <<harnessVars, analysisVars, progressVars, downloadVars>>

\* refresh_library up to its loop: the indexes are emptied; setRowCount(0)
\* removes the rows and with them the selection, for which the table emits
\* itemSelectionChanged: update_next_up_from_library clears the next-up list
\* and returns.  Without files the handler returns.
refresh_library_begin ==
    /\ EventLoopRunning
    /\ library_index' = <<>>
    /\ bpm_index' = <<>>
    /\ selected' = None
    /\ next_up_list' = <<>>
    /\ \E files \in Listings(directory) :
          /\ table' = TableOf(<<>>, table.sort, SortFiles(files))
          /\ refreshing' = IF Len(files) = 0 THEN None ELSE Some(SortFiles(files))
    /\ UNCHANGED <<directory, index_read>>
    /\ UNCHANGED <<harnessVars, analysisVars, progressVars, downloadVars>>

\* bpm_index after "if bpm is not None: setdefault(bpm, []).append(item)"
BucketAppended(index, item) ==
    IF item.bpm = None THEN index
    ELSE [b \in DOMAIN index \cup {Val(item.bpm)} |->
             IF b = Val(item.bpm)
             THEN (IF b \in DOMAIN index THEN Append(index[b], item) ELSE <<item>>)
             ELSE index[b]]

\* one pass of the loop of refresh_library, for the file p
RowBuilt(p, rest) ==
    /\ library_index' = Append(library_index, Item(p))
    /\ bpm_index' = BucketAppended(bpm_index, Item(p))
    /\ table' = TableOf(RowAdded(table.rows, RowOf(Item(p)), table.sort),
                        table.sort, table.listed)
    /\ refreshing' = IF Len(rest) = 0 THEN None ELSE Some(rest)

refresh_library_row ==
    /\ refreshing # None
    /\ RowBuilt(Val(refreshing)[1], Tail(Val(refreshing)))
    /\ UNCHANGED <<directory, selected, next_up_list, index_read>>
    /\ UNCHANGED <<harnessVars, analysisVars, progressVars, downloadVars>>

\* what gather_candidates_by_bpm finds when it is called for row: the two
\* indexes and the listing they were built from
IndexesRead(row) ==
    Some([row |-> row, library_index |-> library_index, bpm_index |-> bpm_index,
          listed |-> table.listed])

\* the user clicks row r of the table: itemSelectionChanged runs
\* update_next_up_from_library, which takes library_index[r] as cur
ClickRow ==
    /\ EventLoopRunning
    /\ \E r \in 0..(Len(table.rows) - 1) :
          /\ selected # Some(r)
          /\ selected' = Some(r)
          /\ next_up_list' = update_next_up_from_library(Some(r))
          /\ index_read' = IF r < Len(library_index) THEN IndexesRead(r) ELSE index_read
    /\ UNCHANGED <<libraryVars, table, refreshing>>
    /\ UNCHANGED <<harnessVars, analysisVars, progressVars, downloadVars>>

\* the user clicks the header of a column: the rows are sorted by its
\* texts, the other way round on the next click; the selection stays on
\* its row, and library_index is not touched
ClickHeader ==
    /\ EventLoopRunning
    /\ \E column \in SortColumns, order \in {"ascending", "descending"} :
          /\ table.sort # Some(<<column, order>>)
          /\ table' = TableOf(SortedRows(table.rows, <<column, order>>),
                              Some(<<column, order>>), table.listed)
          /\ selected' =
                IF selected = None THEN None
                ELSE Some(RowAt(SortedRows(table.rows, <<column, order>>),
                                table.rows[Val(selected) + 1].path))
    /\ UNCHANGED <<libraryVars, next_up_list, refreshing, index_read>>
    /\ UNCHANGED <<harnessVars, analysisVars, progressVars, downloadVars>>

NextTable ==
    \/ FileArrives
    \/ refresh_library_begin
    \/ refresh_library_row
    \/ ClickRow
    \/ ClickHeader

SpecTable == InitTable /\ [][NextTable]_vars

---------------------------------------------------------------------------
(* Claims about the rebuild and the table (checked under SpecTable) *)

\* C23: a read of the BPM index by gather_candidates_by_bpm never finds a
\* partly built index: what it finds is the complete index of a listing of
\* the directory, consistent with library_index.
C23_CompleteIndex ==
    index_read # None =>
        /\ Val(index_read).library_index = ItemsOf(Val(index_read).listed)
        /\ Val(index_read).bpm_index = BuildBpmIndex(Val(index_read).library_index)

\* a read after a rebuild that found a file the rebuild before it had not,
\* while the next rebuild is in its loop
C23_Witness ==
    /\ index_read # None
    /\ Len(Val(index_read).library_index) = 3
    /\ DOMAIN Val(index_read).bpm_index = {60, 120}
    /\ refreshing # None
    /\ Len(library_index) = 1

\* C28 (as stated): after any refreshes and sorts of the table, the track
\* shown in row r is library_index[r], so that the reference of the ranking
\* is the track of the selected row.
C28_Original ==
    EventLoopRunning =>
        \A r \in 1..Len(table.rows) :
            r <= Len(library_index) /\ table.rows[r].path = library_index[r].path

---------------------------------------------------------------------------
(* The file name written by handle_audio_analysis (main.py lines           *)
(* 1274-1289, ui_main.py lines 411-418) and read back by refresh_library   *)
(* through extract_bpm_key.                                                *)

\* the largest of the small BPMs of an analysis result
MaxResultBpm == 3

\* the bpm of analysis_complete: 0 for unknown ("bpm or 0")
ResultBpms == (0..MaxResultBpm) \cup ScenarioBpms

\* the camelot of analysis_complete: a code of KEY_MAP or "UNK"
ResultKeys == CamelotCodes \cup {UNK}

\* sanitized titles, one of them with " - " in it
ResultTitles == {<<"a">>, <<"a", " ", "-", " ", "b">>, <<"9", " ", "8", "A">>}

InitRescan ==
    /\ LibraryIdle /\ UiIdle /\ AnalysisIdle
    /\ args \in {<<"handle_audio_analysis", bpm, camelot, title>> :
                    bpm \in ResultBpms, camelot \in ResultKeys, title \in ResultTitles}
    /\ ret = None

\* the file is renamed by handle_audio_analysis; the next refresh_library
\* applies extract_bpm_key to its name
Rescan ==
    /\ args[1] = "handle_audio_analysis"
    /\ ret = None
    /\ \E name \in {FinalName(args[2], args[3], args[4])} :
          ret' = Some(extract_bpm_key(name))
    /\ UNCHANGED <<args, libraryVars, uiVars, analysisVars>>

NextRescan == Rescan

SpecRescan == InitRescan /\ [][NextRescan]_vars

\* C27 (as stated): extract_bpm_key applied to the name that
\* handle_audio_analysis generates returns the BPM and the Camelot code of
\* the analysis result, with unknown (bpm 0, code "UNK") mapped to null,
\* each independently of the other.
C27_Original ==
    Called("handle_audio_analysis") =>
        Val(ret) = <<IF args[2] = 0 THEN None ELSE Some(args[2]),
                     IF args[3] = UNK THEN None ELSE Some(args[3])>>

---------------------------------------------------------------------------
(* Claims about the signals of the analysis workers (checked under         *)
(* SpecAnalysis)                                                           *)

\* C24 (as stated): while a worker started by download_finished has not
\* yet delivered analysis_complete or error_occurred,
\* analysis_progress_active is true.
C24_Original ==
    (\E w \in 1..Len(workers) : workers[w].pc # "done") => analysis_progress_active

\* the positions of the terminal signals among the signals sig
Terminals(sig) ==
    {i \in 1..Len(sig) : sig[i][1] \in {"analysis_complete", "error_occurred"}}

\* the positions of the progress updates among the signals sig
Progress(sig) == {i \in 1..Len(sig) : sig[i][1] = "progress_update"}

\* the signals sig of a run, which has ended or not: at most one terminal
\* signal, the last signal and there exactly when the run has ended; the
\* percentages increase; analysis_complete comes after the percentage 100
RunSignals(sig, ended) ==
    /\ Cardinality(Terminals(sig)) = (IF ended THEN 1 ELSE 0)
    /\ Terminals(sig) \subseteq {Len(sig)}
    /\ \A i \in Progress(sig) : \A j \in Progress(sig) : i < j => sig[i][2] < sig[j][2]
    /\ \A i \in Terminals(sig) :
          sig[i][1] = "analysis_complete"
          => \E j \in Progress(sig) : j < i /\ sig[j][2] = 100

\* C30: every run of AudioAnalysisWorker ends with exactly one terminal
\* signal, analysis_complete or error_occurred; its progress percentages
\* are emitted in strictly increasing order, and analysis_complete only
\* after the progress update 100.
C30_OneTerminalSignal ==
    \A w \in 1..Len(workers) : RunSignals(workers[w].signals, workers[w].pc = "done")

\* a run of main.py that ended with analysis_complete after 5, 65, 85, 100,
\* and a run of the package that ended with error_occurred after 5
C30_Witness ==
    \E w \in 1..Len(workers) :
        /\ workers[w].pc = "done"
        /\ \/ /\ variant = "main"
              /\ Len(workers[w].signals) = 5
              /\ [i \in 1..4 |-> workers[w].signals[i][2]] = <<5, 65, 85, 100>>
              /\ workers[w].signals[5][1] = "analysis_complete"
           \/ /\ variant = "app"
              /\ Len(workers[w].signals) = 2
              /\ workers[w].signals[2][1] = "error_occurred"

---------------------------------------------------------------------------
(* The index against a scan of the library (checked under SpecGather) *)

\* the rows a scan of the whole library finds for c: a known BPM whose
\* bpm_tier_score against c is not 0
RowsScanned(c) ==
    {j \in 1..Len(library_index) :
        /\ library_index[j].bpm # None
        /\ bpm_tier_score(Some(c), library_index[j].bpm)[1] # 0}

\* C29: with a known cur_bpm, a non-empty index and fewer than 50
\* candidates before the widening, gather_candidates_by_bpm returns every
\* track of the library with a known BPM whose bpm_tier_score against
\* cur_bpm is not 0, as a scan of the whole library finds them.
C29_NothingHidden ==
    (/\ Called("gather_candidates_by_bpm")
     /\ args[2] # None
     /\ DOMAIN bpm_index # {})
    => \A c \in {Val(args[2])} :
          Cardinality(RowsNear(c)) < 50
          => {library_index[j] : j \in RowsScanned(c)}
                \subseteq {Val(ret)[i] : i \in 1..Len(Val(ret))}

\* cur_bpm = 120 in a library with a loose track (127), a double-time
\* track at the edge (243) and a far one (200): the scan finds the first
\* two, and they are returned
C29_Witness ==
    /\ Called("gather_candidates_by_bpm")
    /\ args[2] = Some(120)
    /\ Cardinality(RowsNear(120)) < 50
    /\ {127, 243} \subseteq {Val(library_index[j].bpm) : j \in RowsScanned(120)}
    /\ \E j \in 1..Len(library_index) :
          library_index[j].bpm = Some(200) /\ j \notin RowsScanned(120)
    /\ {Some(127), Some(243)} \subseteq {Val(ret)[i].bpm : i \in 1..Len(Val(ret))}

---------------------------------------------------------------------------
(* Downloads: download_selected and the DownloadWorker threads.            *)
(* main.py 1179-1221, ui_main.py 342-370, workers.py 49-87.  The done and  *)
(* error signals of a worker go to download_finished and download_error,   *)
(* which touch neither the counter nor the button (see SpecAnalysis for    *)
(* download_finished).                                                      *)

MaxSelected == 2

MaxDownloads == 4

\* an item of reco_list as the loop of download_selected sees it: whether
\* its row is inside reco_tracks, the videoId of its track, and whether
\* find_existing_track(title) finds a file
RecoItems ==
    [row_valid : BOOLEAN, video_id : {None, Some("v")}, existing : BOOLEAN]

Selections ==
    UNION {[1..n -> RecoItems] : n \in 0..MaxSelected}

\* the three "continue" tests of the loop
Startable(item) ==
    /\ item.row_valid
    /\ item.video_id # None
    /\ ~item.existing

\* the workers the loop starts, one for each item that passes the tests
RECURSIVE StartedFor(_)
StartedFor(selected_items) ==
    IF selected_items = <<>> THEN <<>>
    ELSE (IF Startable(Head(selected_items))
          THEN <<[pc |-> "running", emitted |-> None]>>
          ELSE <<>>) \o StartedFor(Tail(selected_items))

Debounced_never == FALSE

\* "if self.download_in_progress > 0: ...; return"
Debounced == download_in_progress > 0

InitDownload ==
    /\ HarnessIdle /\ LibraryIdle /\ AnalysisIdle /\ UiIdle

\* download_selected, from the button or one of the shortcuts
download_selected ==
    /\ \E selected_items \in Selections :
          /\ Len(downloads) + Len(StartedFor(selected_items)) <= MaxDownloads
          /\ IF Debounced \/ selected_items = <<>>
             THEN UNCHANGED downloadVars
             ELSE \E started \in {StartedFor(selected_items)} :
                     /\ downloads' = downloads \o started
                     /\ download_in_progress' = download_in_progress + Len(started)
                     \* setEnabled(False) before the loop, and
                     \* "else: self.download_btn.setEnabled(True)" after it
                     /\ download_btn' = (Len(started) = 0)
    /\ UNCHANGED <<harnessVars, libraryVars, analysisVars>>
    /\ UNCHANGED <<selected, next_up_list, tableVars, progressVars>>

\* DownloadWorker.run: exactly one of done and error is emitted, and the
\* thread ends, which queues its finished signal
DownloadWorker_run ==
    /\ \E d \in 1..Len(downloads), signal \in {"done", "error"} :
          /\ downloads[d].pc = "running"
          /\ downloads' = [downloads EXCEPT ![d] =
                              [pc |-> "finished", emitted |-> Some(signal)]]
    /\ UNCHANGED <<download_in_progress, download_btn>>
    /\ UNCHANGED <<harnessVars, libraryVars, analysisVars>>
    /\ UNCHANGED <<selected, next_up_list, tableVars, progressVars>>

\* the slot connected to worker.finished (_on_any_download_finished in
\* ui_main.py), run by the event loop
_on_worker_finished ==
    /\ \E d \in 1..Len(downloads) :
          /\ downloads[d].pc = "finished"
          /\ downloads' = [downloads EXCEPT ![d].pc = "handled"]
          /\ \E remaining \in {IF download_in_progress - 1 > 0
                               THEN download_in_progress - 1 ELSE 0} :
                /\ download_in_progress' = remaining
                /\ download_btn' = IF remaining = 0 THEN TRUE ELSE download_btn
    /\ UNCHANGED <<harnessVars, libraryVars, analysisVars>>
    /\ UNCHANGED <<selected, next_up_list, tableVars, progressVars>>

NextDownload ==
    \/ download_selected
    \/ DownloadWorker_run
    \/ _on_worker_finished

SpecDownload == InitDownload /\ [][NextDownload]_vars

---------------------------------------------------------------------------
(* Claims about downloads (checked under SpecDownload) *)

\* the started workers whose finished signal is not handled yet
Unhandled == {d \in 1..Len(downloads) : downloads[d].pc # "handled"}

DownloadCounted ==
    /\ download_in_progress = Cardinality(Unhandled)
    /\ download_in_progress >= 0
    /\ download_btn <=> (Cardinality(Unhandled) = 0)

\* C25: no DownloadWorker is started while download_in_progress > 0;
\* between GUI events download_in_progress is the number of started workers
\* whose finished signal is not handled yet, never negative; and the
\* download button is enabled exactly when that number is 0.
C25_Debounced ==
    /\ []DownloadCounted
    /\ [][download_in_progress > 0 => Len(downloads') = Len(downloads)]_vars

\* two workers were started by one request, one has ended and its finished
\* signal is handled, the other still runs: the counter is 1, the button
\* is still disabled
C25_Witness ==
    /\ Len(downloads) = 2
    /\ downloads[1].pc = "handled"
    /\ downloads[2].pc = "running"
    /\ download_in_progress = 1
    /\ ~download_btn

=============================================================================
